---------------------------- MODULE Spec2Model ----------------------------
(***************************************************************************)
(* A model of thyme's shared Context (src/src/context.rs): the mouse and   *)
(* keyboard-focus bookkeeping of ContextInternal and its persistent-state  *)
(* store, driven by clients that call every operation of the API in any   *)
(* order: Spec (pointer and focus), SpecStore (the store) and SpecKeys      *)
(* (typed characters) differ only in the arguments their client draws.     *)
(***************************************************************************)
EXTENDS Integers, Sequences, FiniteSets, TLC

(***************************************************************************)
(* Bounds of the model.                                                    *)
(***************************************************************************)
\* longest characters queue a store entry is allowed to reach
MaxChars == 2

(***************************************************************************)
(* Values.                                                                 *)
(***************************************************************************)
\* Option::None of an Option<String>
None == "none"
\* widget ids (paths) the client uses
Ids == {"a", "b"}
OptId == Ids \cup {None}

\* mouse_pressed.len(): the arrays are [bool; 3]
NumButtons == 3
Buttons == 0 .. (NumButtons - 1)
\* button indexes a host may pass: the three buttons and one out of range
ButtonInputs == 0 .. NumButtons

\* Point::default() and three other points
Origin == [x |-> 0, y |-> 0]
PointA == [x |-> 1, y |-> 2]
PointB == [x |-> 3, y |-> 1]
PointC == [x |-> 0, y |-> 4]

\* the display size given to ContextBuilder::build, and one it is resized to
DisplayInit == [x |-> 8, y |-> 6]
DisplayAlt == [x |-> 4, y |-> 3]

\* elapsed times (milliseconds since start_instant) the clock is read at
Times == {0, 16}

AllFalse == [i \in Buttons |-> FALSE]

\* PersistentState::default()
DefaultState ==
    [is_open |-> TRUE,
     resize |-> Origin,
     moved |-> Origin,
     scroll |-> Origin,
     base_time_millis |-> 0,
     characters |-> <<>>,
     text |-> None]

(***************************************************************************)
(* State: the fields of ContextInternal.                                   *)
(***************************************************************************)
VARIABLES
    mouse_taken_last_frame,  \* Option<String>
    mouse_pressed_outside,   \* [bool; 3]
    keyboard_focus_widget,   \* Option<String>
    persistent_state,        \* HashMap<String, PersistentState>
    empty_persistent_state,  \* PersistentState
    last_mouse_pos,          \* Point
    mouse_pos,               \* Point
    mouse_pressed,           \* [bool; 3]
    mouse_clicked,           \* [bool; 3]
    display_size,            \* Point
    time_millis,             \* u32
    returned,                \* what the most recent call returned (Unit for a call returning ())
    click_since_focus,       \* history: a click happened after the last set_focus_keyboard
    delta_age,               \* history: "fresh" after a write of moved, resize or scroll,
                             \* "aged" once a frame boundary followed it ("none" before any)
    widgets,                 \* Frame: the arena of widgets, root first (empty: no frame)
    parent_index,            \* Frame: the arena index of the current parent
    frame_mouse_taken,       \* Frame: the id that claimed the mouse in this frame
    builders,                \* the WidgetBuilders alive, innermost last
    result,                  \* the WidgetState the most recent finish() returned, and for whom
    history,                 \* history: per arena widget, what its builder has done
    panicked,                \* the process aborted in panic!()
    size_in,                 \* the arguments of one call of fn size
    size_out,                \* its result, once called
    order_set,               \* a set of configuration calls with fixed arguments
    order_a,                 \* a fresh builder configured with them in one order
    order_b,                 \* the same fresh builder configured in another order
    pos_in,                  \* the arguments of one call of fn pos
    pos_out,                 \* its result, once called
    field_in,                \* the store entry one input_field call finds
    field_out,               \* the entry it leaves and what it returns, once called
    cell,                    \* Rc<RefCell<ContextInternal>>: handles, borrow flag, failed borrow
    in_call                  \* the Context method the thread is inside of, if any

vars == <<mouse_taken_last_frame, mouse_pressed_outside, keyboard_focus_widget,
          persistent_state, empty_persistent_state, last_mouse_pos, mouse_pos,
          mouse_pressed, mouse_clicked, display_size, time_millis, returned,
          click_since_focus, delta_age, widgets, parent_index, frame_mouse_taken,
          builders,
          result, history, panicked, size_in, size_out, order_set, order_a, order_b,
          pos_in, pos_out, field_in, field_out, cell, in_call>>

frame_vars == <<widgets, parent_index, frame_mouse_taken, builders, result, history,
                panicked>>
\* every variable of the Context
context_all == <<mouse_taken_last_frame, mouse_pressed_outside, keyboard_focus_widget,
                 persistent_state, empty_persistent_state, last_mouse_pos, mouse_pos,
                 mouse_pressed, mouse_clicked, display_size, time_millis, returned,
                 click_since_focus, delta_age>>
case_vars == <<size_in, size_out, order_set, order_a, order_b, pos_in, pos_out,
               field_in, field_out, cell, in_call>>
\* the variables of the cases other than fn size and than the two chains
other_cases == <<pos_in, pos_out, field_in, field_out, cell, in_call>>
\* the RefCell is unused and one handle exists, the Context; no call is running
\* and none has returned (last: the method last returned from, and whether early)
NoCall ==
    /\ cell = [flag |-> 0, handles |-> 1, failed |-> FALSE, last |-> <<>>]
    /\ in_call = <<>>
NoOtherCase ==
    /\ NoCall
    /\ pos_in = <<>>
    /\ pos_out = <<>>
    /\ field_in = <<>>
    /\ field_out = <<>>

mouse_vars == <<mouse_taken_last_frame, mouse_pressed_outside, last_mouse_pos,
                mouse_pos, mouse_pressed, mouse_clicked>>

\* the empty map
EmptyMap == [id \in {} |-> DefaultState]

\* the value () of a call that returns nothing: no entry of any id
Unit == [id |-> None, state |-> DefaultState]

\* Context::new
ContextNew ==
    /\ display_size = DisplayInit
    /\ persistent_state = EmptyMap
    /\ empty_persistent_state = DefaultState
    /\ mouse_pos = Origin
    /\ last_mouse_pos = Origin
    /\ mouse_pressed = AllFalse
    /\ mouse_clicked = AllFalse
    /\ mouse_taken_last_frame = None
    /\ mouse_pressed_outside = AllFalse
    /\ time_millis = 0
    /\ keyboard_focus_widget = None
    /\ returned = Unit
    /\ click_since_focus = FALSE
    /\ delta_age = "none"

\* the value of finish() before any widget finished
NoResult ==
    [widget |-> 0,
     state |-> [visible |-> FALSE, hovered |-> FALSE, pressed |-> FALSE,
                clicked |-> FALSE, dragged |-> Origin]]

\* no Frame exists
NoFrame ==
    /\ widgets = <<>>
    /\ parent_index = 0
    /\ frame_mouse_taken = None
    /\ builders = <<>>
    /\ result = NoResult
    /\ history = <<>>
    /\ panicked = FALSE

\* no call of the geometry functions is under study
NoCase ==
    /\ size_in = <<>>
    /\ size_out = <<>>
    /\ order_set = {}
    /\ order_a = <<>>
    /\ order_b = <<>>
    /\ NoOtherCase

\* a fresh Context, before any frame
Init == ContextNew /\ NoFrame /\ NoCase

(***************************************************************************)
(* The persistent-state store.                                             *)
(***************************************************************************)
\* HashMap::contains_key
Has(store, id) == id \in DOMAIN store

\* HashMap::entry(id).or_insert(value): the map, with value put under id if id was vacant
OrInsert(store, id, value) ==
    IF Has(store, id)
    THEN store
    ELSE [k \in (DOMAIN store) \cup {id} |-> IF k = id THEN value ELSE store[k]]

\* a variant that empties the map
Remove_All(store, id) == [k \in {} |-> store[k]]

\* HashMap::remove
Remove(store, id) == [k \in (DOMAIN store) \ {id} |-> store[k]]

\* a variant that inserts unconditionally (HashMap::insert): last call wins
InitStateStore_Overwrite(store, id, open) ==
    [k \in (DOMAIN store) \cup {id} |->
        IF k = id THEN [DefaultState EXCEPT !.is_open = open] ELSE store[k]]

\* ContextInternal::init_state: the store afterwards
InitStateStore(store, id, open) ==
    OrInsert(store, id, [DefaultState EXCEPT !.is_open = open])

\* ContextInternal::state_mut: the store after entry(id).or_default()
StateMutStore(store, id) == OrInsert(store, id, DefaultState)

\* ContextInternal::state: the entry, or the empty state when there is none
State(store, empty, id) == IF Has(store, id) THEN store[id] ELSE empty

\* ContextInternal::mouse_pressed_outside: any flag set
MousePressedOutside(flags) == \E i \in Buttons : flags[i]


(***************************************************************************)
(* Context::set_mouse_pressed, statement by statement.                     *)
(***************************************************************************)
\* a variant that marks every press as started outside, whoever claimed the mouse
AfterPressOutside_AnyPress(flags, taken, pressed, index) ==
    IF pressed
    THEN [flags EXCEPT ![index] = TRUE]
    ELSE flags

\* lines 256-259: a press while no widget claimed the mouse last frame started outside
AfterPressOutside(flags, taken, pressed, index) ==
    IF pressed /\ taken = None
    THEN [flags EXCEPT ![index] = TRUE]
    ELSE flags

\* a variant in which a release leaves the flags as they are
AfterReleaseOutside_Keep(flags, pressed, index) == flags

\* a variant in which a release clears the flags of all buttons
AfterReleaseOutside_ClearAll(flags, pressed, index) ==
    IF ~pressed /\ flags[index]
    THEN [j \in Buttons |-> FALSE]
    ELSE flags

\* lines 261-263: a release clears the button's flag
AfterReleaseOutside(flags, pressed, index) ==
    IF ~pressed /\ flags[index]
    THEN [flags EXCEPT ![index] = FALSE]
    ELSE flags

\* a variant that takes every release for a click
IsClick_AnyRelease(was_pressed, pressed, index) == ~pressed

\* line 265: the button was down and is released
IsClick(was_pressed, pressed, index) == was_pressed[index] /\ ~pressed

\* line 266
AfterClickClicked(clicked, index) == [clicked EXCEPT ![index] = TRUE]

\* a variant in which a click keeps the focus owner
AfterClickFocus_Keep(focus) == focus

\* line 267
AfterClickFocus(focus) == None

\* a variant that records presses only
AfterPressed_PressOnly(was_pressed, pressed, index) ==
    IF pressed THEN [was_pressed EXCEPT ![index] = TRUE] ELSE was_pressed

\* line 270
AfterPressed(was_pressed, pressed, index) == [was_pressed EXCEPT ![index] = pressed]

\* a variant that takes an index out of range for the last button
set_mouse_pressed_Clamped(pressed, index) ==
    LET button == IF index >= NumButtons THEN NumButtons - 1 ELSE index
    IN  /\ returned' = Unit
        /\ mouse_pressed_outside' =
               AfterReleaseOutside(
                   AfterPressOutside(mouse_pressed_outside, mouse_taken_last_frame,
                                     pressed, button),
                   pressed, button)
        /\ IF IsClick(mouse_pressed, pressed, button)
           THEN /\ mouse_clicked' = AfterClickClicked(mouse_clicked, button)
                /\ keyboard_focus_widget' = AfterClickFocus(keyboard_focus_widget)
           ELSE UNCHANGED <<mouse_clicked, keyboard_focus_widget>>
        /\ mouse_pressed' = AfterPressed(mouse_pressed, pressed, button)
        /\ UNCHANGED <<mouse_taken_last_frame, persistent_state,
                       empty_persistent_state, last_mouse_pos, mouse_pos,
                       display_size, time_millis>>

set_mouse_pressed(pressed, index) ==
    /\ returned' = Unit
    /\ IF index >= NumButtons
       THEN UNCHANGED <<mouse_taken_last_frame, mouse_pressed_outside,
                        keyboard_focus_widget, persistent_state,
                        empty_persistent_state, last_mouse_pos, mouse_pos,
                        mouse_pressed, mouse_clicked, display_size, time_millis>>
       ELSE /\ mouse_pressed_outside' =
                  AfterReleaseOutside(
                      AfterPressOutside(mouse_pressed_outside, mouse_taken_last_frame,
                                        pressed, index),
                      pressed, index)
            /\ IF IsClick(mouse_pressed, pressed, index)
               THEN /\ mouse_clicked' = AfterClickClicked(mouse_clicked, index)
                    /\ keyboard_focus_widget' = AfterClickFocus(keyboard_focus_widget)
               ELSE UNCHANGED <<mouse_clicked, keyboard_focus_widget>>
            /\ mouse_pressed' = AfterPressed(mouse_pressed, pressed, index)
            /\ UNCHANGED <<mouse_taken_last_frame, persistent_state,
                           empty_persistent_state, last_mouse_pos, mouse_pos,
                           display_size, time_millis>>

(***************************************************************************)
(* The other input events of Context.                                      *)
(***************************************************************************)
\* a variant that inserts the character at the front of the queue
PushInto_Front(store, id, c) ==
    [StateMutStore(store, id) EXCEPT
        ![id].characters = <<c>> \o StateMutStore(store, id)[id].characters]

\* lines 281-282: state_mut(id).characters.push(c)
PushInto(store, id, c) ==
    [StateMutStore(store, id) EXCEPT
        ![id].characters = Append(StateMutStore(store, id)[id].characters, c)]

\* lines 276-282: the store after push_character(c) under the given focus owner
AfterPushCharacter(store, focus, c) ==
    IF focus = None THEN store ELSE PushInto(store, focus, c)

push_character(c) ==
    /\ keyboard_focus_widget /= None =>
           Len(State(persistent_state, empty_persistent_state,
                     keyboard_focus_widget).characters) < MaxChars
    /\ persistent_state' = AfterPushCharacter(persistent_state, keyboard_focus_widget, c)
    /\ returned' = Unit
    /\ UNCHANGED <<mouse_vars, keyboard_focus_widget, empty_persistent_state,
                   display_size, time_millis>>

set_mouse_pos(pos) ==
    /\ mouse_pos' = pos
    /\ returned' = Unit
    /\ UNCHANGED <<mouse_taken_last_frame, mouse_pressed_outside,
                   keyboard_focus_widget, persistent_state, empty_persistent_state,
                   last_mouse_pos, mouse_pressed, mouse_clicked, display_size,
                   time_millis>>

set_display_size(size) ==
    /\ display_size' = size
    /\ returned' = Unit
    /\ UNCHANGED <<mouse_vars, keyboard_focus_widget, persistent_state,
                   empty_persistent_state, time_millis>>

\* lines 291-300; Instant is monotonic, so elapsed never decreases.  The Frame
\* it returns is a new object outside the context.
create_frame(elapsed) ==
    /\ elapsed >= time_millis
    /\ time_millis' = elapsed
    /\ returned' = Unit
    /\ UNCHANGED <<mouse_vars, keyboard_focus_widget, persistent_state,
                   empty_persistent_state, display_size>>

(***************************************************************************)
(* The crate-internal operations of ContextInternal.                       *)
(***************************************************************************)
\* a variant that also reports a held button
wants_mouse_Pressed == mouse_taken_last_frame /= None \/ \E i \in Buttons : mouse_pressed[i]

\* Context::wants_mouse: its return value in the current state
wants_mouse == mouse_taken_last_frame /= None

\* a variant that leaves the clicks of the frame in place
next_frame_KeepClicks(mouse_taken) ==
    /\ mouse_taken_last_frame' = mouse_taken
    /\ last_mouse_pos' = mouse_pos
    /\ returned' = Unit
    /\ UNCHANGED <<mouse_clicked, mouse_pressed_outside, keyboard_focus_widget,
                   persistent_state, empty_persistent_state, mouse_pos,
                   mouse_pressed, display_size, time_millis>>

\* a variant that also drops the deltas of every entry at the frame boundary
next_frame_ResetDeltas(mouse_taken) ==
    /\ mouse_clicked' = AllFalse
    /\ mouse_taken_last_frame' = mouse_taken
    /\ last_mouse_pos' = mouse_pos
    /\ persistent_state' =
           [k \in DOMAIN persistent_state |->
               [persistent_state[k] EXCEPT
                   !.moved = Origin, !.resize = Origin, !.scroll = Origin]]
    /\ returned' = Unit
    /\ UNCHANGED <<mouse_pressed_outside, keyboard_focus_widget,
                   empty_persistent_state, mouse_pos, mouse_pressed, display_size,
                   time_millis>>

next_frame(mouse_taken) ==
    /\ mouse_clicked' = AllFalse
    /\ mouse_taken_last_frame' = mouse_taken
    /\ last_mouse_pos' = mouse_pos
    /\ returned' = Unit
    /\ UNCHANGED <<mouse_pressed_outside, keyboard_focus_widget, persistent_state,
                   empty_persistent_state, mouse_pos, mouse_pressed, display_size,
                   time_millis>>

set_focus_keyboard(id) ==
    /\ keyboard_focus_widget' = id
    /\ returned' = Unit
    /\ UNCHANGED <<mouse_vars, persistent_state, empty_persistent_state,
                   display_size, time_millis>>

init_state(id, open) ==
    /\ persistent_state' = InitStateStore(persistent_state, id, open)
    /\ returned' = Unit
    /\ UNCHANGED <<mouse_vars, keyboard_focus_widget, empty_persistent_state,
                   display_size, time_millis>>

clear_state(id) ==
    /\ persistent_state' = Remove(persistent_state, id)
    /\ returned' = Unit
    /\ UNCHANGED <<mouse_vars, keyboard_focus_widget, empty_persistent_state,
                   display_size, time_millis>>

\* a variant that reads through entry(id).or_default(), as state_mut does
state_OrDefault(id) ==
    /\ persistent_state' = StateMutStore(persistent_state, id)
    /\ returned' = [id |-> id,
                    state |-> StateMutStore(persistent_state, id)[id]]
    /\ UNCHANGED <<mouse_vars, keyboard_focus_widget, empty_persistent_state,
                   display_size, time_millis>>

\* a read: the store is borrowed immutably and the entry (or the empty state) returned
state(id) ==
    /\ returned' = [id |-> id,
                    state |-> State(persistent_state, empty_persistent_state, id)]
    /\ UNCHANGED <<mouse_vars, keyboard_focus_widget, persistent_state,
                   empty_persistent_state, display_size, time_millis>>

\* state_mut(id) followed by the caller's write of one field through the
\* returned &mut PersistentState
state_mut(id, field, value) ==
    /\ returned' = Unit
    /\ LET store == StateMutStore(persistent_state, id)
       IN  persistent_state' = [store EXCEPT ![id][field] = value]
    /\ UNCHANGED <<mouse_vars, keyboard_focus_widget, empty_persistent_state,
                   display_size, time_millis>>

(***************************************************************************)
(* Clients.  A client calls every operation, in any order, with arguments  *)
(* drawn from the sets of its scenario.                                    *)
(***************************************************************************)
\* history: a click (line 265) sets the flag, set_focus_keyboard resets it
ClickHistory(pressed, index) ==
    click_since_focus' =
        IF index < NumButtons /\ IsClick(mouse_pressed, pressed, index)
        THEN TRUE
        ELSE click_since_focus

\* the fields that hold accumulated deltas
DeltaFields == {"moved", "resize", "scroll"}

Client(in) ==
    \/ \E pressed \in BOOLEAN, index \in in.buttons :
           /\ set_mouse_pressed(pressed, index)
           /\ ClickHistory(pressed, index)
           /\ UNCHANGED delta_age
    \/ \E c \in in.chars :
           push_character(c) /\ UNCHANGED <<click_since_focus, delta_age>>
    \/ \E pos \in in.positions :
           set_mouse_pos(pos) /\ UNCHANGED <<click_since_focus, delta_age>>
    \/ \E size \in in.sizes :
           set_display_size(size) /\ UNCHANGED <<click_since_focus, delta_age>>
    \/ \E elapsed \in in.times :
           create_frame(elapsed) /\ UNCHANGED <<click_since_focus, delta_age>>
    \/ \E taken \in in.takens :
           /\ next_frame(taken)
           /\ delta_age' = IF delta_age = "fresh" THEN "aged" ELSE delta_age
           /\ UNCHANGED click_since_focus
    \/ \E id \in in.focus :
           /\ set_focus_keyboard(id)
           /\ click_since_focus' = FALSE
           /\ UNCHANGED delta_age
    \/ \E i \in in.inits :
           init_state(i[1], i[2]) /\ UNCHANGED <<click_since_focus, delta_age>>
    \/ \E id \in in.clears :
           clear_state(id) /\ UNCHANGED <<click_since_focus, delta_age>>
    \/ \E id \in in.reads :
           state(id) /\ UNCHANGED <<click_since_focus, delta_age>>
    \/ \E w \in in.writes :
           /\ state_mut(w[1], w[2], w[3])
           /\ delta_age' = IF w[2] \in DeltaFields THEN "fresh" ELSE delta_age
           /\ UNCHANGED click_since_focus

\* the pointer scenario: every button, either id focused, one typed character
PointerInputs ==
    [buttons |-> ButtonInputs,
     takens |-> {None, "a"},
     focus |-> Ids,
     chars |-> {"x"},
     positions |-> {PointA},
     sizes |-> {DisplayInit},
     times |-> {0},
     inits |-> {<<"a", TRUE>>},
     clears |-> {"a"},
     reads |-> {"a"},
     writes |-> {<<"a", "is_open", TRUE>>}]

\* the store scenario: a dragged, resized and scrolled window "a" and a text field "b"
StoreInputs ==
    [buttons |-> {0},
     takens |-> {None},
     focus |-> {"b"},
     chars |-> {"x"},
     positions |-> {PointA},
     sizes |-> {DisplayInit, DisplayAlt},
     times |-> Times,
     inits |-> Ids \X BOOLEAN,
     clears |-> Ids,
     reads |-> Ids,
     writes |-> ({"a"} \X {"moved"} \X {Origin, PointA})
               \cup ({"a"} \X {"resize"} \X {Origin, PointB})
               \cup ({"a"} \X {"scroll"} \X {Origin, PointC})
               \cup (Ids \X {"is_open"} \X BOOLEAN)]

\* the typing scenario: two characters typed into either id
KeysInputs ==
    [buttons |-> {0},
     takens |-> {None},
     focus |-> Ids,
     chars |-> {"x", "y"},
     positions |-> {Origin},
     sizes |-> {DisplayInit},
     times |-> {0},
     inits |-> {<<"a", FALSE>>},
     clears |-> {"a"},
     reads |-> {"a"},
     writes |-> {<<"a", "is_open", TRUE>>}]

Next == Client(PointerInputs) /\ UNCHANGED <<frame_vars, case_vars>>
NextStore == Client(StoreInputs) /\ UNCHANGED <<frame_vars, case_vars>>
NextKeys == Client(KeysInputs) /\ UNCHANGED <<frame_vars, case_vars>>

Spec == Init /\ [][Next]_vars
SpecStore == Init /\ [][NextStore]_vars
SpecKeys == Init /\ [][NextKeys]_vars

(***************************************************************************)
(* Widget geometry (widget.rs).  Sizes, borders, raw positions and cursors *)
(* are whole numbers.  A resolved position is kept in half units (twice    *)
(* the coordinate), so that the halvings of the anchor formulas stay exact.*)
(***************************************************************************)
Align == {"Left", "Right", "Bot", "Top", "Center",
          "BotLeft", "BotRight", "TopLeft", "TopRight"}
Layout == {"Horizontal", "Vertical", "Free"}
WidthRelative == {"Normal", "Parent"}
HeightRelative == {"Normal", "Parent", "FontLine"}

\* Align::default(), Layout::default(), WidthRelative::default(), HeightRelative::default()
AlignDefault == "TopLeft"
LayoutDefault == "Horizontal"
WidthDefault == "Normal"
HeightDefault == "Normal"

\* Option<T>: Nothing, or Some(v)
Nothing == <<>>
Some(v) == <<v>>
\* Option::unwrap_or
unwrap_or(opt, default) == IF opt = Nothing THEN default ELSE opt[1]

\* Border::default(), Border::horizontal(), Border::vertical()
ZeroBorder == [left |-> 0, right |-> 0, top |-> 0, bot |-> 0]
horizontal(border) == border.left + border.right
vertical(border) == border.top + border.bot

\* Point + Point, and a whole-number point in half units
PointAdd(p, q) == [x |-> p.x + q.x, y |-> p.y + q.y]
Halves(p) == [x |-> 2 * p.x, y |-> 2 * p.y]

\* font.map_or(0.0, |sum| sum.line_height)
LineHeight(font) == IF font = Nothing THEN 0 ELSE font[1].line_height

\* a variant whose FontLine height leaves out the widget's own border
size_NoBorder(parent, raw_size, border, font, width_from, height_from) ==
    [x |-> IF width_from = "Normal" THEN raw_size.x
           ELSE raw_size.x + parent.size.x - horizontal(parent.border),
     y |-> CASE height_from = "Normal" -> raw_size.y
             [] height_from = "Parent" ->
                    raw_size.y + parent.size.y - vertical(parent.border)
             [] height_from = "FontLine" -> raw_size.y + LineHeight(font)]

\* fn size
size(parent, raw_size, border, font, width_from, height_from) ==
    [x |-> CASE width_from = "Normal" -> raw_size.x
             [] width_from = "Parent" ->
                    raw_size.x + parent.size.x - horizontal(parent.border),
     y |-> CASE height_from = "Normal" -> raw_size.y
             [] height_from = "Parent" ->
                    raw_size.y + parent.size.y - vertical(parent.border)
             [] height_from = "FontLine" ->
                    raw_size.y + LineHeight(font) + vertical(border)]

\* f32::round of n / 2 (halves go away from zero)
RoundHalf(n) == IF n >= 0 THEN (n + 1) \div 2 ELSE 0 - ((1 - n) \div 2)

\* fn pos: the anchor inside the parent's border, minus the rounded offset of
\* the widget's own size; the result is in half units
pos(parent, raw_pos, self_size, align) ==
    LET psize == parent.size
        border == parent.border
        left == 2 * (border.left + raw_pos.x)
        right == 2 * (psize.x - border.right - raw_pos.x)
        top == 2 * (border.top + raw_pos.y)
        bot == 2 * (psize.y - border.bot - raw_pos.y)
        mid_x == 2 * border.left + (psize.x - horizontal(border)) + 2 * raw_pos.x
        mid_y == 2 * border.top + (psize.y - vertical(border)) + 2 * raw_pos.y
        anchor == CASE align = "Left" -> [x |-> left, y |-> mid_y]
                    [] align = "Right" -> [x |-> right, y |-> mid_y]
                    [] align = "Bot" -> [x |-> mid_x, y |-> bot]
                    [] align = "Top" -> [x |-> mid_x, y |-> top]
                    [] align = "Center" -> [x |-> mid_x, y |-> mid_y]
                    [] align = "BotLeft" -> [x |-> left, y |-> bot]
                    [] align = "BotRight" -> [x |-> right, y |-> bot]
                    [] align = "TopLeft" -> [x |-> left, y |-> top]
                    [] align = "TopRight" -> [x |-> right, y |-> top]
        half_x == RoundHalf(self_size.x)
        half_y == RoundHalf(self_size.y)
        own == CASE align = "Left" -> [x |-> 0, y |-> half_y]
                 [] align = "Right" -> [x |-> self_size.x, y |-> half_y]
                 [] align = "Bot" -> [x |-> half_x, y |-> self_size.y]
                 [] align = "Top" -> [x |-> half_x, y |-> 0]
                 [] align = "Center" -> [x |-> half_x, y |-> half_y]
                 [] align = "BotLeft" -> [x |-> 0, y |-> self_size.y]
                 [] align = "BotRight" -> [x |-> self_size.x, y |-> self_size.y]
                 [] align = "TopLeft" -> [x |-> 0, y |-> 0]
                 [] align = "TopRight" -> [x |-> self_size.x, y |-> 0]
    IN  [x |-> parent.pos.x + anchor.x - 2 * own.x,
         y |-> parent.pos.y + anchor.y - 2 * own.y]

(***************************************************************************)
(* Themes, widgets and finalization results (widget.rs).                   *)
(***************************************************************************)
\* Color::default()
ColorDefault == "white"

\* AnimState: the set of keys that are on
AnimStateNormal == {"Normal"}
AnimStateDisabled == {"Disabled"}
AnimStateAdd(anim_state, key) == anim_state \cup {key}
AnimStateContains(anim_state, key) == key \in anim_state

\* a WidgetTheme that declares nothing but its id
BlankTheme(id) ==
    [id |-> id, full_id |-> id, handle |-> id,
     font |-> Nothing, border |-> Nothing, size |-> Nothing,
     width_from |-> Nothing, height_from |-> Nothing, align |-> Nothing,
     pos |-> Nothing, text |-> Nothing, text_color |-> Nothing,
     text_align |-> Nothing, wants_mouse |-> Nothing, background |-> Nothing,
     foreground |-> Nothing, layout |-> Nothing, layout_spacing |-> Nothing,
     child_align |-> Nothing]

\* Widget::root
WidgetRoot(theme, display) ==
    [theme_id |-> "", theme |-> theme, text |-> Nothing,
     text_align |-> AlignDefault, text_color |-> ColorDefault,
     font |-> Nothing, background |-> Nothing, foreground |-> Nothing,
     raw_pos |-> Origin, pos |-> Origin, raw_size |-> Origin, cursor |-> Origin,
     border |-> ZeroBorder, layout |-> LayoutDefault, layout_spacing |-> Origin,
     child_align |-> AlignDefault, align |-> AlignDefault, wants_mouse |-> FALSE,
     size |-> display, width_from |-> WidthDefault, height_from |-> HeightDefault,
     id |-> "", anim_state |-> AnimStateNormal, hidden |-> FALSE]

\* Widget::new
WidgetNew(parent, theme) ==
    LET font == theme.font
        border == unwrap_or(theme.border, ZeroBorder)
        raw_size == unwrap_or(theme.size, Origin)
        width_from == unwrap_or(theme.width_from, WidthDefault)
        height_from == unwrap_or(theme.height_from, HeightDefault)
        new_size == size(parent, raw_size, border, font, width_from, height_from)
        align == unwrap_or(theme.align, parent.child_align)
        cursor_pos == IF align = parent.child_align THEN parent.cursor ELSE Origin
        raw_pos == unwrap_or(theme.pos, cursor_pos)
        new_pos == pos(parent, raw_pos, new_size, align)
        id == IF parent.id = "" THEN theme.id ELSE parent.id \o "/" \o theme.id
    IN  [theme_id |-> theme.full_id,
         text |-> theme.text,
         text_color |-> unwrap_or(theme.text_color, ColorDefault),
         text_align |-> unwrap_or(theme.text_align, AlignDefault),
         wants_mouse |-> unwrap_or(theme.wants_mouse, FALSE),
         font |-> font,
         background |-> theme.background,
         foreground |-> theme.foreground,
         theme |-> theme.handle,
         raw_size |-> raw_size,
         raw_pos |-> raw_pos,
         pos |-> new_pos,
         cursor |-> Origin,
         border |-> border,
         layout |-> unwrap_or(theme.layout, LayoutDefault),
         layout_spacing |-> unwrap_or(theme.layout_spacing, Origin),
         size |-> new_size,
         width_from |-> width_from,
         height_from |-> height_from,
         child_align |-> unwrap_or(theme.child_align, AlignDefault),
         align |-> align,
         id |-> id,
         anim_state |-> AnimStateNormal,
         hidden |-> FALSE]

\* WidgetState::hidden
WidgetStateHidden ==
    [visible |-> FALSE, hovered |-> FALSE, pressed |-> FALSE, clicked |-> FALSE,
     dragged |-> Origin]

\* WidgetState::new
WidgetStateNew(anim_state, clicked, dragged) ==
    [visible |-> TRUE,
     hovered |-> AnimStateContains(anim_state, "Pressed")
                     \/ AnimStateContains(anim_state, "Hover"),
     pressed |-> AnimStateContains(anim_state, "Pressed"),
     clicked |-> clicked,
     dragged |-> dragged]

(***************************************************************************)
(* WidgetBuilder (widget.rs).  A builder method is an operator on `self`,  *)
(* the pair of the builder's own fields (b) and the arena widget it points *)
(* at (w), and gives the pair after the call.                              *)
(***************************************************************************)
\* the fonts the theme set can resolve (themes.find_font)
Fonts == [small |-> [line_height |-> 16]]
find_font(name) == IF name \in DOMAIN Fonts THEN Some(Fonts[name]) ELSE Nothing

\* WidgetBuilder::new, after the theme lookup: the builder and the widget it pushes
builder_new(parent, index, parent_widget, theme) ==
    LET align == unwrap_or(theme.align, parent_widget.child_align)
    IN  [b |-> [parent |-> parent,
                widget |-> index,
                manual_pos |-> theme.pos /= Nothing \/ align /= parent_widget.child_align,
                visible |-> TRUE,
                enabled |-> TRUE,
                active |-> FALSE,
                recalc_pos_size |-> TRUE,
                \* where the chain stands: inside the closure of children(), and
                \* the parent index children() saved
                in_children |-> FALSE,
                old_parent_index |-> 0],
         w |-> WidgetNew(parent_widget, theme)]

\* a variant that leaves the dirty flag set
recalculate_pos_size_KeepDirty(self, parent, persisted) ==
    LET new_size == size(parent, self.w.raw_size, self.w.border, self.w.font,
                         self.w.width_from, self.w.height_from)
        new_pos == pos(parent, self.w.raw_pos, new_size, self.w.align)
    IN  [self EXCEPT !.w.pos = PointAdd(new_pos, Halves(persisted.moved)),
                     !.w.size = PointAdd(new_size, persisted.resize)]

\* WidgetBuilder::recalculate_pos_size
recalculate_pos_size(self, parent, persisted) ==
    LET new_size == size(parent, self.w.raw_size, self.w.border, self.w.font,
                         self.w.width_from, self.w.height_from)
        new_pos == pos(parent, self.w.raw_pos, new_size, self.w.align)
    IN  [self EXCEPT !.w.pos = PointAdd(new_pos, Halves(persisted.moved)),
                     !.w.size = PointAdd(new_size, persisted.resize),
                     !.b.recalc_pos_size = FALSE]

\* the configuration methods of WidgetBuilder
builder_wants_mouse(self, wants) == [self EXCEPT !.w.wants_mouse = wants]
builder_id(self, id) == [self EXCEPT !.w.id = id, !.b.recalc_pos_size = TRUE]
builder_text_color(self, color) == [self EXCEPT !.w.text_color = color]
builder_text_align(self, align) == [self EXCEPT !.w.text_align = align]
builder_text(self, text) == [self EXCEPT !.w.text = Some(text)]
\* a variant that drops the widget's font when the name does not resolve
builder_font_Clear(self, name) ==
    IF find_font(name) = Nothing
    THEN [self EXCEPT !.w.font = Nothing]
    ELSE [self EXCEPT !.w.font = find_font(name), !.b.recalc_pos_size = TRUE]
\* WidgetBuilder::font
builder_font(self, name) ==
    IF find_font(name) = Nothing
    THEN self
    ELSE [self EXCEPT !.w.font = find_font(name), !.b.recalc_pos_size = TRUE]
builder_foreground(self, fg) == [self EXCEPT !.w.foreground = Some(fg)]
builder_background(self, bg) == [self EXCEPT !.w.background = Some(bg)]
\* a variant that sets the widget's own alignment
builder_child_align_Own(self, align) == [self EXCEPT !.w.align = align]
builder_child_align(self, align) == [self EXCEPT !.w.child_align = align]
builder_layout_spacing(self, spacing) == [self EXCEPT !.w.layout_spacing = spacing]
builder_layout(self, layout) == [self EXCEPT !.w.layout = layout]
builder_screen_pos(self, point) ==
    [self EXCEPT !.w.raw_pos = point, !.w.pos = Halves(point), !.w.align = "TopLeft",
                 !.b.manual_pos = TRUE, !.b.recalc_pos_size = FALSE]
builder_pos(self, point) ==
    [self EXCEPT !.w.raw_pos = point, !.b.manual_pos = TRUE,
                 !.b.recalc_pos_size = TRUE]
builder_align(self, align) ==
    [self EXCEPT !.w.align = align, !.b.manual_pos = TRUE, !.b.recalc_pos_size = TRUE]
builder_border(self, border) ==
    [self EXCEPT !.w.border = border, !.b.recalc_pos_size = TRUE]
builder_size(self, point) ==
    [self EXCEPT !.w.raw_size = point, !.b.recalc_pos_size = TRUE]
builder_width_from(self, from) ==
    [self EXCEPT !.w.width_from = from, !.b.recalc_pos_size = TRUE]
builder_height_from(self, from) ==
    [self EXCEPT !.w.height_from = from, !.b.recalc_pos_size = TRUE]
builder_active(self, active) == [self EXCEPT !.b.active = active]
builder_visible(self, visible) == [self EXCEPT !.b.visible = visible]
builder_enabled(self, enabled) == [self EXCEPT !.b.enabled = enabled]

\* the methods that leave geometry alone, and those that can change it
NonGeometryCalls ==
    {"wants_mouse", "text", "text_color", "text_align", "foreground", "background",
     "child_align", "layout", "layout_spacing", "active", "visible", "enabled"}
GeometryCalls ==
    {"id", "font", "screen_pos", "pos", "align", "border", "size", "width_from",
     "height_from"}

\* one configuration call <<method, argument>> applied to self
\* (initially_open acts on the store only)
Configure(self, call) ==
    LET arg == call[2]
    IN  CASE call[1] = "wants_mouse" -> builder_wants_mouse(self, arg)
          [] call[1] = "id" -> builder_id(self, arg)
          [] call[1] = "initially_open" -> self
          [] call[1] = "text_color" -> builder_text_color(self, arg)
          [] call[1] = "text_align" -> builder_text_align(self, arg)
          [] call[1] = "text" -> builder_text(self, arg)
          [] call[1] = "font" -> builder_font(self, arg)
          [] call[1] = "foreground" -> builder_foreground(self, arg)
          [] call[1] = "background" -> builder_background(self, arg)
          [] call[1] = "child_align" -> builder_child_align(self, arg)
          [] call[1] = "layout_spacing" -> builder_layout_spacing(self, arg)
          [] call[1] = "layout" -> builder_layout(self, arg)
          [] call[1] = "screen_pos" -> builder_screen_pos(self, arg)
          [] call[1] = "pos" -> builder_pos(self, arg)
          [] call[1] = "align" -> builder_align(self, arg)
          [] call[1] = "border" -> builder_border(self, arg)
          [] call[1] = "size" -> builder_size(self, arg)
          [] call[1] = "width_from" -> builder_width_from(self, arg)
          [] call[1] = "height_from" -> builder_height_from(self, arg)
          [] call[1] = "active" -> builder_active(self, arg)
          [] call[1] = "visible" -> builder_visible(self, arg)
          [] call[1] = "enabled" -> builder_enabled(self, arg)

(***************************************************************************)
(* A frame under construction: the arena, the parent index and the chain   *)
(* of builder calls the application makes.                                 *)
(***************************************************************************)
\* the configuration calls and the children() calls made on one builder
MaxCalls == 2
MaxChildren == 1

\* the theme set the Context was built with
Themes ==
    [column |-> [BlankTheme("column") EXCEPT
                    !.size = Some([x |-> 100, y |-> 200]),
                    !.border = Some([left |-> 2, right |-> 2, top |-> 2, bot |-> 2]),
                    !.layout = Some("Vertical"),
                    !.layout_spacing = Some([x |-> 3, y |-> 5])],
     item |-> [BlankTheme("item") EXCEPT
                    !.size = Some([x |-> 40, y |-> 20]),
                    !.wants_mouse = Some(TRUE)],
     pinned |-> [BlankTheme("pinned") EXCEPT
                    !.size = Some([x |-> 10, y |-> 10]),
                    !.pos = Some([x |-> 7, y |-> 9])],
     badge |-> [BlankTheme("badge") EXCEPT
                    !.size = Some([x |-> 10, y |-> 10]),
                    !.align = Some("BotRight")],
     note |-> [BlankTheme("note") EXCEPT
                    !.size = Some([x |-> 30, y |-> 10])],
     label |-> [BlankTheme("label") EXCEPT
                    !.size = Some([x |-> 100, y |-> 20]),
                    !.text = Some("hello")],
     button |-> [BlankTheme("button") EXCEPT
                    !.size = Some([x |-> 6, y |-> 4]),
                    !.wants_mouse = Some(TRUE)],
     caption |-> [BlankTheme("caption") EXCEPT
                    !.size = Some([x |-> 80, y |-> 0]),
                    !.font = Some([line_height |-> 12]),
                    !.height_from = Some("FontLine")]]
    @@ ("column.label" :> [BlankTheme("label") EXCEPT
                    !.full_id = "column.label",
                    !.handle = "column.label",
                    !.size = Some([x |-> 60, y |-> 20]),
                    !.text = Some("nested")])

\* themes.theme(id)
theme(id) == IF id \in DOMAIN Themes THEN Some(Themes[id]) ELSE Nothing

\* a variant that prefers the base theme
LookupTheme_BaseFirst(theme_id, base_theme) ==
    IF theme(base_theme) /= Nothing THEN theme(base_theme) ELSE theme(theme_id)

\* the theme WidgetBuilder::new instantiates: the requested one, else the base
\* one, else none (panic)
LookupTheme(theme_id, base_theme) ==
    IF theme(theme_id) /= Nothing THEN theme(theme_id) ELSE theme(base_theme)

\* Frame::state(index): the persistent state of the widget's id
FrameState(w) == State(persistent_state, empty_persistent_state, w.id)

\* what the builder of one widget has done so far
\* (final: once finished, the builder and the widgets finish() started from and
\* the parent it left)
NewHistory ==
    [recalcs |-> 0, closures |-> 0, arbitrations |-> 0, calls |-> 0,
     children_calls |-> 0, called |-> {}, late |-> FALSE, theme_manual |-> FALSE,
     started |-> 0, final |-> <<>>]

\* the innermost builder, its widget and its parent widget
Top == builders[Len(builders)]
TopWidget == widgets[Top.widget + 1]
TopParent == widgets[Top.parent + 1]
TopSelf == [b |-> Top, w |-> TopWidget]
TopHistory == history[Top.widget + 1]

\* the chain can call a method of the innermost builder; it can start a widget
Ready == ~panicked /\ builders /= <<>> /\ ~Top.in_children
CanStart ==
    /\ ~panicked
    /\ widgets /= <<>>
    /\ IF builders = <<>> THEN TRUE ELSE Top.in_children

\* self written back to the arena and to the chain
Store(self) ==
    /\ widgets' = [widgets EXCEPT ![self.b.widget + 1] = self.w]
    /\ builders' = [builders EXCEPT ![Len(builders)] = self.b]

\* Context::create_frame and Frame::new: an arena holding the root widget
begin_frame ==
    /\ ~panicked
    /\ widgets = <<>>
    /\ create_frame(time_millis)
    /\ widgets' = <<WidgetRoot("root", display_size)>>
    /\ history' = <<NewHistory>>
    /\ parent_index' = 0
    /\ frame_mouse_taken' = None
    /\ result' = NoResult
    /\ UNCHANGED <<builders, panicked, case_vars, click_since_focus, delta_age>>

\* the frame is dropped and ContextInternal::next_frame records who took the mouse
end_frame ==
    /\ ~panicked
    /\ widgets /= <<>>
    /\ builders = <<>>
    /\ next_frame(frame_mouse_taken)
    /\ widgets' = <<>>
    /\ history' = <<>>
    /\ parent_index' = 0
    /\ frame_mouse_taken' = None
    /\ result' = NoResult
    /\ UNCHANGED <<builders, panicked, case_vars, click_since_focus, delta_age>>

\* Frame::start(name) and WidgetBuilder::new
start(name) ==
    /\ CanStart
    /\ LET parent_widget == widgets[parent_index + 1]
           theme_id == IF parent_widget.theme_id = "" THEN name
                       ELSE parent_widget.theme_id \o "." \o name
           found == LookupTheme(theme_id, name)
       IN  IF found = Nothing
           THEN /\ panicked' = TRUE
                /\ UNCHANGED <<widgets, builders, history>>
           ELSE LET self == builder_new(parent_index, Len(widgets), parent_widget,
                                        found[1])
                IN  /\ widgets' = Append(widgets, self.w)
                    /\ builders' = Append(builders, self.b)
                    /\ history' = Append(
                           [history EXCEPT ![parent_index + 1].started = @ + 1],
                           [NewHistory EXCEPT !.theme_manual = self.b.manual_pos])
                    /\ UNCHANGED panicked
    /\ UNCHANGED <<parent_index, frame_mouse_taken, result, context_all, case_vars>>

\* Frame::check_mouse_taken: the widget under the mouse position claims the
\* mouse; it hovers, is pressed while button 0 is held, was clicked if button 0
\* was released on it, and is dragged by the mouse movement while pressed
\* (called records that the arbitration ran)
check_mouse_taken(w) ==
    LET inside == /\ w.pos.x <= 2 * mouse_pos.x
                  /\ 2 * mouse_pos.x < w.pos.x + 2 * w.size.x
                  /\ w.pos.y <= 2 * mouse_pos.y
                  /\ 2 * mouse_pos.y < w.pos.y + 2 * w.size.y
    IN  IF ~inside
        THEN [called |-> TRUE, claimed |-> FALSE, clicked |-> FALSE,
              anim_state |-> AnimStateNormal, dragged |-> Origin]
        ELSE [called |-> TRUE,
              claimed |-> TRUE,
              clicked |-> mouse_clicked[0],
              anim_state |-> IF mouse_pressed[0] THEN {"Hover", "Pressed"}
                             ELSE {"Hover"},
              dragged |-> IF mouse_pressed[0]
                          THEN [x |-> mouse_pos.x - last_mouse_pos.x,
                                y |-> mouse_pos.y - last_mouse_pos.y]
                          ELSE Origin]

\* a variant that arbitrates for every widget
Arbitrate_Always(self) == check_mouse_taken(self.w)

\* finish, the arbitration step: (clicked, anim_state, dragged), with whether
\* check_mouse_taken was called and whether it claimed the mouse
Arbitrate(self) ==
    IF self.b.enabled /\ self.w.wants_mouse
    THEN check_mouse_taken(self.w)
    ELSE [called |-> FALSE, claimed |-> FALSE, clicked |-> FALSE,
          anim_state |-> AnimStateDisabled, dragged |-> Origin]

\* a variant that steps by the size whatever the parent's child_align is
CursorStep_TopLeft(child_align, extent) == extent

\* finish, the step (x, y) the cursor takes for a child of the given size
CursorStep(child_align, extent) ==
    CASE child_align = "Left" -> [x |-> extent.x, y |-> 0]
      [] child_align = "Right" -> [x |-> 0 - extent.x, y |-> 0]
      [] child_align = "Bot" -> [x |-> 0, y |-> 0 - extent.y]
      [] child_align = "Top" -> [x |-> 0, y |-> extent.y]
      [] child_align = "Center" -> [x |-> 0, y |-> 0]
      [] child_align = "BotLeft" -> [x |-> extent.x, y |-> 0 - extent.y]
      [] child_align = "BotRight" -> [x |-> 0 - extent.x, y |-> 0 - extent.y]
      [] child_align = "TopLeft" -> [x |-> extent.x, y |-> extent.y]
      [] child_align = "TopRight" -> [x |-> 0 - extent.x, y |-> extent.y]

\* a variant that advances for manually placed widgets too
AdvanceCursor_Always(parent, extent, manual_pos) ==
    LET step == CursorStep(parent.child_align, extent)
    IN  CASE parent.layout = "Horizontal" ->
                 [parent EXCEPT !.cursor.x = @ + step.x + parent.layout_spacing.x]
          [] parent.layout = "Vertical" ->
                 [parent EXCEPT !.cursor.y = @ + step.y + parent.layout_spacing.y]
          [] parent.layout = "Free" -> parent

\* finish, the parent after the cursor advance
AdvanceCursor(parent, extent, manual_pos) ==
    IF manual_pos
    THEN parent
    ELSE LET step == CursorStep(parent.child_align, extent)
         IN  CASE parent.layout = "Horizontal" ->
                      [parent EXCEPT !.cursor.x = @ + step.x + parent.layout_spacing.x]
               [] parent.layout = "Vertical" ->
                      [parent EXCEPT !.cursor.y = @ + step.y + parent.layout_spacing.y]
               [] parent.layout = "Free" -> parent

\* a variant in which a widget that is not visible still advances the cursor
Finished_HiddenAdvances(self, parent, persisted) ==
    IF ~self.b.visible
    THEN [w |-> self.w,
          parent |-> AdvanceCursor(parent, self.w.size, self.b.manual_pos),
          state |-> WidgetStateHidden,
          recalculated |-> FALSE, arbitrated |-> FALSE, claimed |-> FALSE]
    ELSE IF ~persisted.is_open
    THEN [w |-> [self.w EXCEPT !.hidden = TRUE], parent |-> parent,
          state |-> WidgetStateHidden,
          recalculated |-> FALSE, arbitrated |-> FALSE, claimed |-> FALSE]
    ELSE LET after == IF self.b.recalc_pos_size
                      THEN recalculate_pos_size(self, parent, persisted)
                      ELSE self
             taken == Arbitrate(after)
             anim_state == IF after.b.active
                           THEN AnimStateAdd(taken.anim_state, "Active")
                           ELSE taken.anim_state
         IN  [w |-> [after.w EXCEPT !.anim_state = anim_state],
              parent |-> AdvanceCursor(parent, after.w.size, after.b.manual_pos),
              state |-> WidgetStateNew(anim_state, taken.clicked, taken.dragged),
              recalculated |-> self.b.recalc_pos_size,
              arbitrated |-> taken.called,
              claimed |-> taken.claimed]

\* WidgetBuilder::finish as a function of the builder, its widget, the parent
\* widget and the widget's persistent state: the two widgets afterwards, the
\* WidgetState returned, and which of the steps ran
Finished(self, parent, persisted) ==
    IF ~self.b.visible
    THEN [w |-> self.w, parent |-> parent, state |-> WidgetStateHidden,
          recalculated |-> FALSE, arbitrated |-> FALSE, claimed |-> FALSE]
    ELSE IF ~persisted.is_open
    THEN [w |-> [self.w EXCEPT !.hidden = TRUE], parent |-> parent,
          state |-> WidgetStateHidden,
          recalculated |-> FALSE, arbitrated |-> FALSE, claimed |-> FALSE]
    ELSE LET after == IF self.b.recalc_pos_size
                      THEN recalculate_pos_size(self, parent, persisted)
                      ELSE self
             taken == Arbitrate(after)
             anim_state == IF after.b.active
                           THEN AnimStateAdd(taken.anim_state, "Active")
                           ELSE taken.anim_state
         IN  [w |-> [after.w EXCEPT !.anim_state = anim_state],
              parent |-> AdvanceCursor(parent, after.w.size, after.b.manual_pos),
              state |-> WidgetStateNew(anim_state, taken.clicked, taken.dragged),
              recalculated |-> self.b.recalc_pos_size,
              arbitrated |-> taken.called,
              claimed |-> taken.claimed]

\* the methods that set the dirty flag
DirtyingCalls == GeometryCalls \ {"screen_pos"}

\* one configuration method is called on the innermost builder
configure(call) ==
    /\ Ready
    /\ TopHistory.calls < MaxCalls
    /\ Store(Configure(TopSelf, call))
    /\ persistent_state' =
           IF call[1] = "initially_open"
           THEN InitStateStore(persistent_state, TopWidget.id, call[2])
           ELSE persistent_state
    /\ history' = [history EXCEPT ![Top.widget + 1] =
           [@ EXCEPT !.calls = @ + 1,
                     !.called = @ \cup {call[1]},
                     !.late = @ \/ (TopHistory.children_calls > 0
                                       /\ call[1] \in DirtyingCalls)]]
    /\ UNCHANGED <<parent_index, frame_mouse_taken, result, panicked, case_vars,
                   mouse_vars, keyboard_focus_widget, empty_persistent_state,
                   display_size, time_millis, returned, click_since_focus, delta_age>>

\* a variant that runs the closure of a closed widget too
children_IgnoreOpen ==
    /\ Ready
    /\ TopHistory.children_calls < MaxChildren
    /\ LET after == IF Top.recalc_pos_size
                    THEN recalculate_pos_size(TopSelf, TopParent, FrameState(TopWidget))
                    ELSE TopSelf
       IN  /\ Store([after EXCEPT !.b.in_children = TRUE,
                                  !.b.old_parent_index = parent_index])
           /\ parent_index' = Top.widget
           /\ history' = [history EXCEPT ![Top.widget + 1] =
                  [@ EXCEPT !.children_calls = @ + 1,
                            !.closures = @ + 1,
                            !.recalcs = @ + (IF Top.recalc_pos_size THEN 1 ELSE 0)]]
    /\ UNCHANGED <<frame_mouse_taken, result, panicked, context_all, case_vars>>

\* WidgetBuilder::children up to the call of the closure (all of it for a closed
\* widget, whose closure is not called)
children ==
    /\ Ready
    /\ TopHistory.children_calls < MaxChildren
    /\ LET persisted == FrameState(TopWidget)
           after == IF Top.recalc_pos_size
                    THEN recalculate_pos_size(TopSelf, TopParent, persisted)
                    ELSE TopSelf
       IN  IF ~persisted.is_open
           THEN /\ Store([TopSelf EXCEPT !.w.hidden = TRUE])
                /\ history' = [history EXCEPT ![Top.widget + 1].children_calls = @ + 1]
                /\ UNCHANGED parent_index
           ELSE /\ Store([after EXCEPT !.b.in_children = TRUE,
                                       !.b.old_parent_index = parent_index])
                /\ parent_index' = Top.widget
                /\ history' = [history EXCEPT ![Top.widget + 1] =
                       [@ EXCEPT !.children_calls = @ + 1,
                                 !.closures = @ + 1,
                                 !.recalcs = @ + (IF Top.recalc_pos_size THEN 1 ELSE 0)]]
    /\ UNCHANGED <<frame_mouse_taken, result, panicked, context_all, case_vars>>

\* a variant that leaves the parent index at the widget
children_done_KeepIndex ==
    /\ ~panicked
    /\ builders /= <<>>
    /\ Top.in_children
    /\ builders' = [builders EXCEPT ![Len(builders)].in_children = FALSE]
    /\ UNCHANGED <<parent_index, widgets, history, frame_mouse_taken, result, panicked,
                   context_all, case_vars>>

\* WidgetBuilder::children once the closure has returned
children_done ==
    /\ ~panicked
    /\ builders /= <<>>
    /\ Top.in_children
    /\ parent_index' = Top.old_parent_index
    /\ builders' = [builders EXCEPT ![Len(builders)].in_children = FALSE]
    /\ UNCHANGED <<widgets, history, frame_mouse_taken, result, panicked, context_all,
                   case_vars>>

\* WidgetBuilder::finish
finish ==
    /\ Ready
    /\ LET done == Finished(TopSelf, TopParent, FrameState(TopWidget))
       IN  /\ widgets' = [widgets EXCEPT ![Top.widget + 1] = done.w,
                                         ![Top.parent + 1] = done.parent]
           /\ builders' = SubSeq(builders, 1, Len(builders) - 1)
           /\ result' = [widget |-> Top.widget, state |-> done.state]
           /\ frame_mouse_taken' = IF done.claimed THEN TopWidget.id
                                   ELSE frame_mouse_taken
           /\ history' = [history EXCEPT ![Top.widget + 1] =
                  [@ EXCEPT !.recalcs = @ + (IF done.recalculated THEN 1 ELSE 0),
                            !.arbitrations = @ + (IF done.arbitrated THEN 1 ELSE 0),
                            !.final = <<[b |-> Top,
                                         open |-> FrameState(TopWidget).is_open,
                                         w_before |-> TopWidget,
                                         parent_before |-> TopParent,
                                         parent_after |-> done.parent,
                                         state |-> done.state]>>]]
    /\ UNCHANGED <<parent_index, panicked, context_all, case_vars>>

\* what the application may do next: in.starts holds <<theme of the parent, n,
\* name>> when the n-th widget started under such a parent may be a `name`, and
\* in.calls holds <<theme, call>> when the call may be made on such a widget
Startable(in) ==
    IF CanStart
    THEN {s[3] : s \in {t \in in.starts :
                            /\ t[1] = widgets[parent_index + 1].theme_id
                            /\ t[2] = history[parent_index + 1].started + 1}}
    ELSE {}
Callable(in) ==
    IF Ready
    THEN {c[2] : c \in {d \in in.calls : d[1] = TopWidget.theme_id}}
    ELSE {}

\* an application building frames: input events arrive between frames, and in
\* a frame the application starts widgets, configures them, builds their
\* children and finishes them
Builder(in) ==
    \/ \E position \in in.positions :
           /\ ~panicked /\ widgets = <<>>
           /\ set_mouse_pos(position)
           /\ UNCHANGED <<frame_vars, case_vars, click_since_focus, delta_age>>
    \/ \E pressed \in in.presses :
           /\ ~panicked /\ widgets = <<>>
           /\ set_mouse_pressed(pressed, 0)
           /\ UNCHANGED <<frame_vars, case_vars, click_since_focus, delta_age>>
    \/ begin_frame
    \/ end_frame
    \/ \E name \in Startable(in) : start(name)
    \/ \E call \in Callable(in) : configure(call)
    \/ children
    \/ children_done
    \/ finish

\* a container of two flowing items; the application picks the container's
\* layout and child alignment, and the size of each item
FlowInputs ==
    [positions |-> {Origin},
     presses |-> {FALSE},
     starts |-> {<<"", 1, "column">>, <<"column", 1, "item">>, <<"column", 2, "item">>},
     calls |-> {<<"column", <<"layout", "Horizontal">>>>,
                <<"column", <<"layout", "Free">>>>,
                <<"column", <<"child_align", "Center">>>>,
                <<"column", <<"child_align", "BotRight">>>>,
                <<"item", <<"size", [x |-> 40, y |-> 30]>>>>}]

\* a column whose first child is placed, aligned or identified by hand or by
\* its theme, followed by a flowing item
PlaceInputs ==
    [positions |-> {Origin},
     presses |-> {FALSE},
     starts |-> {<<"", 1, "column">>, <<"column", 1, "item">>,
                 <<"column", 1, "note">>, <<"column", 1, "pinned">>,
                 <<"column", 1, "badge">>, <<"column", 2, "item">>},
     calls |-> {<<"column", <<"child_align", "BotRight">>>>,
                <<"note", <<"id", "memo">>>>,
                <<"note", <<"pos", [x |-> 1, y |-> 2]>>>>,
                <<"note", <<"screen_pos", [x |-> 3, y |-> 4]>>>>,
                <<"note", <<"align", "TopLeft">>>>}]

\* a column that may be invisible or closed, and its children: an item, or a
\* label (which has a theme of its own under a column) and then an item; the
\* application then starts a widget that has no theme
GateInputs ==
    [positions |-> {Origin},
     presses |-> {FALSE},
     starts |-> {<<"", 1, "column">>, <<"column", 1, "item">>,
                 <<"column", 1, "label">>, <<"column", 2, "item">>,
                 <<"", 2, "ghost">>},
     calls |-> {<<"column", <<"visible", FALSE>>>>,
                <<"column", <<"initially_open", FALSE>>>>,
                <<"column", <<"size", [x |-> 100, y |-> 150]>>>>,
                <<"item", <<"visible", FALSE>>>>}]

NextFlow == Builder(FlowInputs)
SpecFlow == Init /\ [][NextFlow]_vars
\* one label, configured with any two of the setters that leave geometry alone
\* and of pos and size
ConfigInputs ==
    [positions |-> {Origin},
     presses |-> {FALSE},
     starts |-> {<<"", 1, "label">>},
     calls |-> {<<"label", <<"wants_mouse", TRUE>>>>,
                <<"label", <<"text", "bye">>>>,
                <<"label", <<"text_color", "red">>>>,
                <<"label", <<"text_align", "Center">>>>,
                <<"label", <<"foreground", "fg">>>>,
                <<"label", <<"background", "bg">>>>,
                <<"label", <<"child_align", "Center">>>>,
                <<"label", <<"layout", "Vertical">>>>,
                <<"label", <<"layout_spacing", [x |-> 1, y |-> 1]>>>>,
                <<"label", <<"active", TRUE>>>>,
                <<"label", <<"visible", FALSE>>>>,
                <<"label", <<"enabled", FALSE>>>>,
                <<"label", <<"pos", [x |-> 1, y |-> 2]>>>>,
                <<"label", <<"size", [x |-> 40, y |-> 30]>>>>}]

NextConfig == Builder(ConfigInputs)
SpecConfig == Init /\ [][NextConfig]_vars
NextPlace == Builder(PlaceInputs)
SpecPlace == Init /\ [][NextPlace]_vars
NextGate == Builder(GateInputs)
SpecGate == Init /\ [][NextGate]_vars


\* one button that may be disabled, told not to want the mouse, or made
\* active, while the mouse moves over it and button 0 is pressed and released
MouseInputs ==
    [positions |-> {PointA, PointB, [x |-> 7, y |-> 5]},
     presses |-> {TRUE, FALSE},
     starts |-> {<<"", 1, "button">>},
     calls |-> {<<"button", <<"enabled", FALSE>>>>,
                <<"button", <<"wants_mouse", FALSE>>>>,
                <<"button", <<"active", TRUE>>>>}]

NextMouse == Builder(MouseInputs)
SpecMouse == Init /\ [][NextMouse]_vars

\* a caption, whose theme declares a font, or a note, whose theme declares
\* none; the application names a font the theme set has, or one it has not
FontInputs ==
    [positions |-> {Origin},
     presses |-> {FALSE},
     starts |-> {<<"", 1, "caption">>, <<"", 1, "note">>, <<"", 2, "note">>},
     calls |-> {<<"caption", <<"font", "small">>>>,
                <<"caption", <<"font", "missing">>>>,
                <<"caption", <<"text", "bye">>>>,
                <<"note", <<"font", "small">>>>,
                <<"note", <<"font", "missing">>>>,
                <<"note", <<"height_from", "FontLine">>>>}]

\* three levels of children: a column, an item in it, a note in the item
NestInputs ==
    [positions |-> {Origin},
     presses |-> {FALSE},
     starts |-> {<<"", 1, "column">>, <<"column", 1, "item">>, <<"item", 1, "note">>,
                 <<"column", 2, "item">>},
     calls |-> {<<"item", <<"initially_open", FALSE>>>>,
                <<"note", <<"text", "bye">>>>}]

NextNest == Builder(NestInputs)
SpecNest == Init /\ [][NextNest]_vars
\* a note that has been moved and resized by the user: between frames the
\* application stores the deltas under the note's id, and in a frame it places
\* or sizes the note by hand
DragInputs ==
    [positions |-> {Origin},
     presses |-> {FALSE},
     starts |-> {<<"", 1, "note">>},
     calls |-> {<<"note", <<"screen_pos", [x |-> 3, y |-> 4]>>>>,
                <<"note", <<"pos", [x |-> 1, y |-> 2]>>>>,
                <<"note", <<"align", "BotRight">>>>,
                <<"note", <<"size", [x |-> 40, y |-> 30]>>>>,
                <<"note", <<"width_from", "Parent">>>>},
     writes |-> {<<"note", "moved", PointA>>, <<"note", "resize", PointB>>}]

\* the application writes a delta into the store between two frames
store_delta(w) ==
    /\ ~panicked
    /\ widgets = <<>>
    /\ state_mut(w[1], w[2], w[3])
    /\ UNCHANGED <<frame_vars, case_vars, click_since_focus, delta_age>>

NextDrag == Builder(DragInputs) \/ \E w \in DragInputs.writes : store_delta(w)
SpecDrag == Init /\ [][NextDrag]_vars
NextFont == Builder(FontInputs)
SpecFont == Init /\ [][NextFont]_vars

(***************************************************************************)
(* fn size applied to arguments drawn from small sets (SpecSize).          *)
(***************************************************************************)
SizeCases ==
    [parent_size : {[x |-> 800, y |-> 600], [x |-> 50, y |-> 40]},
     parent_border : {ZeroBorder, [left |-> 1, right |-> 2, top |-> 3, bot |-> 4]},
     raw_size : {[x |-> 100, y |-> 20], Origin, [x |-> 0 - 10, y |-> 5]},
     border : {ZeroBorder, [left |-> 2, right |-> 2, top |-> 2, bot |-> 2],
               [left |-> 1, right |-> 2, top |-> 3, bot |-> 4]},
     font : {Nothing, Some([line_height |-> 16])},
     width_from : WidthRelative,
     height_from : HeightRelative]

\* the arguments of one call have been chosen
InitSize ==
    /\ ContextNew
    /\ NoFrame
    /\ size_in \in {<<case>> : case \in SizeCases}
    /\ size_out = <<>>
    /\ order_set = {}
    /\ order_a = <<>>
    /\ order_b = <<>>
    /\ NoOtherCase

\* fn size is called with them
call_size ==
    /\ size_in /= <<>>
    /\ size_out = <<>>
    /\ LET case == size_in[1]
           parent == [size |-> case.parent_size, border |-> case.parent_border]
       IN  size_out' = <<size(parent, case.raw_size, case.border, case.font,
                              case.width_from, case.height_from)>>
    /\ UNCHANGED <<size_in, order_set, order_a, order_b, other_cases>>

NextSize == call_size /\ UNCHANGED <<context_all, frame_vars>>
SpecSize == InitSize /\ [][NextSize]_vars

(***************************************************************************)
(* One fresh builder configured with the same calls in two orders          *)
(* (SpecOrder).                                                            *)
(***************************************************************************)
\* the calls, each with fixed arguments
OrderCalls ==
    {<<"id", "memo">>,
     <<"pos", [x |-> 1, y |-> 2]>>,
     <<"screen_pos", [x |-> 3, y |-> 4]>>,
     <<"align", "Center">>,
     <<"border", [left |-> 1, right |-> 1, top |-> 1, bot |-> 1]>>,
     <<"size", [x |-> 40, y |-> 30]>>,
     <<"width_from", "Parent">>,
     <<"height_from", "FontLine">>,
     <<"text_color", "red">>,
     <<"layout", "Vertical">>}

\* how many of them one chain makes
MaxOrderSet == 3

\* the parent of the fresh builder: a column under the root; and the builder
\* WidgetBuilder::new gives for a note under it
OrderParent == WidgetNew(WidgetRoot("root", DisplayInit), Themes["column"])
OrderFresh == builder_new(1, 2, OrderParent, Themes["note"])

\* a chain that has made no call yet
OrderStart == [self |-> OrderFresh, applied |-> {}, first |-> "", done |-> FALSE]

\* the set of calls has been chosen
InitOrder ==
    /\ ContextNew
    /\ NoFrame
    /\ size_in = <<>>
    /\ size_out = <<>>
    /\ order_set \in {s \in SUBSET OrderCalls : Cardinality(s) <= MaxOrderSet}
    /\ order_a = OrderStart
    /\ order_b = OrderStart
    /\ NoOtherCase

\* the next call of a chain, and its finish() once all calls are made
OrderCall(run, call) ==
    [run EXCEPT !.self = Configure(run.self, call),
                !.applied = @ \cup {call},
                !.first = IF run.applied = {} THEN call[1] ELSE @]
OrderFinish(run) ==
    [run EXCEPT !.self.w = Finished(run.self, OrderParent, DefaultState).w,
                !.done = TRUE]

\* the first chain makes a call, or finishes
order_first ==
    /\ ~order_a.done
    /\ \/ \E call \in order_set \ order_a.applied : order_a' = OrderCall(order_a, call)
       \/ /\ order_a.applied = order_set
          /\ order_a' = OrderFinish(order_a)
    /\ UNCHANGED <<size_in, size_out, order_set, order_b, other_cases>>

\* then the second chain does
order_second ==
    /\ order_a.done
    /\ ~order_b.done
    /\ \/ \E call \in order_set \ order_b.applied : order_b' = OrderCall(order_b, call)
       \/ /\ order_b.applied = order_set
          /\ order_b' = OrderFinish(order_b)
    /\ UNCHANGED <<size_in, size_out, order_set, order_a, other_cases>>

NextOrder == (order_first \/ order_second) /\ UNCHANGED <<context_all, frame_vars>>
SpecOrder == InitOrder /\ [][NextOrder]_vars

(***************************************************************************)
(* fn pos applied to arguments drawn from small sets (SpecPos).  The       *)
(* parent's position, like every resolved position, is in half units.      *)
(***************************************************************************)
PosCases ==
    [parent_pos : {Origin, [x |-> 20, y |-> 40]},
     parent_size : {[x |-> 800, y |-> 600], [x |-> 50, y |-> 41], [x |-> 5, y |-> 4]},
     parent_border : {ZeroBorder, [left |-> 1, right |-> 2, top |-> 3, bot |-> 4]},
     raw_pos : {Origin, [x |-> 3, y |-> 4]},
     self_size : {Origin, [x |-> 100, y |-> 50], [x |-> 3, y |-> 5]},
     align : Align]

\* the arguments of one call have been chosen
InitPos ==
    /\ ContextNew
    /\ NoFrame
    /\ size_in = <<>>
    /\ size_out = <<>>
    /\ order_set = {}
    /\ order_a = <<>>
    /\ order_b = <<>>
    /\ pos_in \in {<<case>> : case \in PosCases}
    /\ pos_out = <<>>
    /\ field_in = <<>>
    /\ field_out = <<>>
    /\ NoCall

\* fn pos is called with them
call_pos ==
    /\ pos_in /= <<>>
    /\ pos_out = <<>>
    /\ LET case == pos_in[1]
           parent == [pos |-> case.parent_pos, size |-> case.parent_size,
                      border |-> case.parent_border]
       IN  pos_out' = <<pos(parent, case.raw_pos, case.self_size, case.align)>>
    /\ UNCHANGED <<size_in, size_out, order_set, order_a, order_b, pos_in,
                   field_in, field_out, cell, in_call>>

NextPos == call_pos /\ UNCHANGED <<context_all, frame_vars>>
SpecPos == InitPos /\ [][NextPos]_vars

(***************************************************************************)
(* Frame::input_field (recipes.rs) applied to store entries drawn from     *)
(* small sets (SpecField): the closure it passes to modify() and the value *)
(* it returns.  A text is a sequence of characters.                        *)
(***************************************************************************)
\* the longest queue of pending characters
MaxQueue == 3

\* the characters typed: two letters and backspace (character code 8)
Backspace == "BS"
Typed == {"a", "b", Backspace}

\* String::pop
Pop(text) == IF text = <<>> THEN text ELSE SubSeq(text, 1, Len(text) - 1)

\* the loop over state.characters.drain(..): the text after the queue
RECURSIVE Drained(_, _)
Drained(text, queue) ==
    IF queue = <<>> THEN text
    ELSE Drained(IF Head(queue) = Backspace THEN Pop(text) ELSE Append(text, Head(queue)),
                 Tail(queue))

\* input_field: the entry the closure leaves, and the text_out returned
input_field(entry) ==
    LET before == unwrap_or(entry.text, <<>>)
        after == Drained(before, entry.characters)
        text_changed == entry.characters /= <<>>
    IN  [entry |-> [text |-> Some(after), characters |-> <<>>],
         returned |-> IF text_changed THEN Some(after) ELSE Nothing]

\* the entries a call may find
FieldTexts == {Nothing, Some(<<>>), Some(<<"a">>), Some(<<"a", "b">>)}
FieldQueues == UNION {[1 .. n -> Typed] : n \in 0 .. MaxQueue}
FieldCases == [text : FieldTexts, characters : FieldQueues]

\* the entry of one call has been chosen
InitField ==
    /\ ContextNew
    /\ NoFrame
    /\ size_in = <<>>
    /\ size_out = <<>>
    /\ order_set = {}
    /\ order_a = <<>>
    /\ order_b = <<>>
    /\ pos_in = <<>>
    /\ pos_out = <<>>
    /\ field_in \in {<<case>> : case \in FieldCases}
    /\ field_out = <<>>
    /\ NoCall

\* input_field is called on it
call_input_field ==
    /\ field_in /= <<>>
    /\ field_out = <<>>
    /\ field_out' = <<input_field(field_in[1])>>
    /\ UNCHANGED <<size_in, size_out, order_set, order_a, order_b, pos_in, pos_out,
                   field_in, cell, in_call>>

NextField == call_input_field /\ UNCHANGED <<context_all, frame_vars>>
SpecField == InitField /\ [][NextField]_vars

(***************************************************************************)
(* The RefCell around ContextInternal (SpecBorrow).  A Context method is   *)
(* entered, which takes its borrow, and then runs to its return, which     *)
(* drops the guard; the application calls the methods one after another    *)
(* through the Context or through the handle a Frame holds.                *)
(***************************************************************************)
\* RefCell::borrow_mut and RefCell::borrow: the borrow flag afterwards (0 is
\* unused, n > 0 is n shared borrows, -1 is a mutable borrow), or none when the
\* cell is already borrowed, which panics
borrow_mut(flag) == IF flag = 0 THEN Some(0 - 1) ELSE Nothing
borrow(flag) == IF flag >= 0 THEN Some(flag + 1) ELSE Nothing
\* a guard goes out of scope
drop(flag) == IF flag < 0 THEN 0 ELSE flag - 1

\* the methods of Context, and Frame::focus_keyboard, which goes through the
\* Frame's handle
ContextMethods ==
    {"set_display_size", "set_mouse_pos", "set_mouse_pressed", "push_character",
     "create_frame", "wants_mouse", "focus_keyboard"}

\* the call takes an early-return path: the button index is out of range, or no
\* widget has the keyboard focus
EarlyReturn(op, arg) ==
    \/ op = "set_mouse_pressed" /\ arg[2] >= NumButtons
    \/ op = "push_character" /\ keyboard_focus_widget = None

\* a variant whose early returns keep the guard alive
Released_NotOnEarlyReturn(flag, early) == IF early THEN flag ELSE drop(flag)

\* the flag when a method returns: its guard is a local, dropped on every path
Released(flag, early) == drop(flag)

\* the case variables a call leaves alone
quiet_cases == <<size_in, size_out, order_set, order_a, order_b, pos_in, pos_out,
                 field_in, field_out>>

\* a method is called through one of the handles and takes its borrow:
\* wants_mouse a shared one, the others a mutable one
enter(op, handle) ==
    /\ in_call = <<>>
    /\ ~cell.failed
    /\ handle <= cell.handles
    /\ op = "focus_keyboard" => handle > 1
    /\ LET got == IF op = "wants_mouse" THEN borrow(cell.flag)
                  ELSE borrow_mut(cell.flag)
       IN  IF got = Nothing
           THEN cell' = [cell EXCEPT !.failed = TRUE] /\ UNCHANGED in_call
           ELSE /\ cell' = [cell EXCEPT !.flag = got[1]]
                /\ in_call' = <<[op |-> op, handle |-> handle]>>
    /\ UNCHANGED <<context_all, frame_vars, quiet_cases>>

\* the method entered runs to its return; create_frame leaves a second handle,
\* the clone its Frame holds
return_from(op, arg) ==
    /\ in_call /= <<>>
    /\ in_call[1].op = op
    /\ cell' = [cell EXCEPT !.flag = Released(@, EarlyReturn(op, arg)),
                            !.handles = IF op = "create_frame" THEN 2 ELSE @,
                            !.last = <<[op |-> op, early |-> EarlyReturn(op, arg)]>>]
    /\ in_call' = <<>>
    /\ UNCHANGED <<frame_vars, quiet_cases, click_since_focus, delta_age>>

ContextCaller(in) ==
    \/ \E op \in ContextMethods, handle \in 1 .. 2 : enter(op, handle)
    \/ \E extent \in in.sizes :
           set_display_size(extent) /\ return_from("set_display_size", <<extent>>)
    \/ \E position \in in.positions :
           set_mouse_pos(position) /\ return_from("set_mouse_pos", <<position>>)
    \/ \E pressed \in BOOLEAN, index \in in.buttons :
           /\ set_mouse_pressed(pressed, index)
           /\ return_from("set_mouse_pressed", <<pressed, index>>)
    \/ \E c \in in.chars :
           push_character(c) /\ return_from("push_character", <<c>>)
    \/ \E elapsed \in in.times :
           create_frame(elapsed) /\ return_from("create_frame", <<elapsed>>)
    \/ /\ return_from("wants_mouse", <<>>)
       /\ UNCHANGED context_all
    \/ \E id \in in.focus :
           set_focus_keyboard(id) /\ return_from("focus_keyboard", <<id>>)

\* one button and an index out of range, one character, one widget to focus
BorrowInputs ==
    [buttons |-> {0, NumButtons},
     chars |-> {"x"},
     positions |-> {PointA},
     sizes |-> {DisplayAlt},
     times |-> {0},
     focus |-> {"a"}]

NextBorrow == ContextCaller(BorrowInputs)
SpecBorrow == Init /\ [][NextBorrow]_vars

(***************************************************************************)
(* Properties of the mouse-press arbitration (Spec).                       *)
(***************************************************************************)
\* C1: for every button i in 0..2, a release of i records a click
\* (mouse_clicked[i] true) and clears the keyboard-focus owner exactly when
\* mouse_pressed[i] was true before the call, whichever id held the focus; a
\* release of a button that was not pressed, and any press, leave mouse_clicked
\* and the focus owner as they were.
C1_ClickExactlyOnReleaseOfPressed ==
    [][\A i \in Buttons :
          /\ set_mouse_pressed(FALSE, i) =>
                 IF mouse_pressed[i]
                 THEN /\ mouse_clicked' = [mouse_clicked EXCEPT ![i] = TRUE]
                      /\ keyboard_focus_widget' = None
                 ELSE /\ mouse_clicked' = mouse_clicked
                      /\ keyboard_focus_widget' = keyboard_focus_widget
          /\ set_mouse_pressed(TRUE, i) =>
                 /\ mouse_clicked' = mouse_clicked
                 /\ keyboard_focus_widget' = keyboard_focus_widget]_vars

\* a click of button 2 has dropped the focus, after "b" had held it and typed
C1_Witness ==
    /\ click_since_focus
    /\ mouse_clicked[2] /\ ~mouse_pressed[2]
    /\ ~mouse_clicked[0] /\ ~mouse_clicked[1]
    /\ keyboard_focus_widget = None
    /\ Has(persistent_state, "b")

\* C3: after a click, and until the next set_focus_keyboard, every
\* push_character leaves the whole store (so every characters queue) unchanged,
\* whatever mouse moves, presses, releases and frame boundaries come in between.
C3_TypingAfterClickIsDropped ==
    [][(click_since_focus /\ \E c \in PointerInputs.chars : push_character(c))
          => persistent_state' = persistent_state]_vars

\* after typing into "a" and "b" a click came, then a frame boundary and a new
\* press: a character pushed now is dropped
C3_Witness ==
    /\ click_since_focus
    /\ Has(persistent_state, "a") /\ persistent_state["a"].characters = <<"x">>
    /\ Has(persistent_state, "b") /\ persistent_state["b"].characters = <<"x", "x">>
    /\ mouse_clicked = AllFalse
    /\ mouse_pressed[1]
    /\ last_mouse_pos = PointA

\* C4: a press of button i sets mouse_pressed_outside[i] when no widget claimed
\* the mouse on the previous frame, and leaves the flag as it was when some
\* widget did; the flags of the other buttons are not touched.
C4_PressOutsideOnlyWhenMouseUnclaimed ==
    [][\A i \in Buttons :
          set_mouse_pressed(TRUE, i) =>
              IF mouse_taken_last_frame = None
              THEN mouse_pressed_outside' = [mouse_pressed_outside EXCEPT ![i] = TRUE]
              ELSE mouse_pressed_outside' = mouse_pressed_outside]_vars

\* button 0 went down while the mouse was unclaimed, button 1 after "a" claimed it
C4_Witness ==
    /\ mouse_taken_last_frame = "a"
    /\ mouse_pressed[0] /\ mouse_pressed_outside[0]
    /\ mouse_pressed[1] /\ ~mouse_pressed_outside[1]
    /\ ~mouse_pressed[2] /\ ~mouse_clicked[2]

\* C5: a release of button i leaves mouse_pressed_outside[i] false and the flags
\* of the other two buttons unchanged, so mouse_pressed_outside() is false
\* afterwards exactly when no other button is still flagged.
C5_ReleaseClearsOwnFlagOnly ==
    [][\A i \in Buttons :
          set_mouse_pressed(FALSE, i) =>
              /\ ~mouse_pressed_outside'[i]
              /\ \A j \in Buttons \ {i} :
                     mouse_pressed_outside'[j] = mouse_pressed_outside[j]
              /\ MousePressedOutside(mouse_pressed_outside') <=>
                     \E j \in Buttons \ {i} : mouse_pressed_outside[j]]_vars

\* button 0 has been released while buttons 1 and 2 are still held from outside
C5_Witness ==
    /\ mouse_taken_last_frame = None
    /\ mouse_clicked[0] /\ ~mouse_pressed[0] /\ ~mouse_pressed_outside[0]
    /\ mouse_pressed_outside[1] /\ mouse_pressed_outside[2]

\* C6: after set_mouse_pressed(p, i), mouse_pressed[i] is p and mouse_pressed of
\* the other two buttons is unchanged, whatever the click and pressed-outside
\* bookkeeping of the call did.
C6_PressStateRecorded ==
    [][\A p \in BOOLEAN, i \in Buttons :
          set_mouse_pressed(p, i) =>
              mouse_pressed' = [mouse_pressed EXCEPT ![i] = p]]_vars

\* button 1 was clicked (bookkeeping done, state recorded as up), button 0 is down
C6_Witness ==
    /\ mouse_pressed[0] /\ mouse_pressed_outside[0]
    /\ mouse_clicked[1] /\ ~mouse_pressed[1]
    /\ ~mouse_pressed[2]
    /\ click_since_focus

(***************************************************************************)
(* Properties of typed characters (SpecKeys).                              *)
(***************************************************************************)
\* the context apart from the call's return value
context_vars ==
    <<mouse_taken_last_frame, mouse_pressed_outside, keyboard_focus_widget,
      persistent_state, empty_persistent_state, last_mouse_pos, mouse_pos,
      mouse_pressed, mouse_clicked, display_size, time_millis>>

\* C2: push_character(c) appends c to the end of the characters queue of the
\* entry of the id that owns the keyboard focus, creating the entry if it is
\* absent (its queue is then <<c>>), and changes no other entry; when no id
\* owns the focus it changes nothing in the context: no queue grows and no
\* entry is created.
C2_CharacterGoesToFocusOwnerOnly ==
    [][\A c \in KeysInputs.chars :
          push_character(c) =>
              IF keyboard_focus_widget = None
              THEN UNCHANGED context_vars
              ELSE /\ DOMAIN persistent_state' =
                         (DOMAIN persistent_state) \cup {keyboard_focus_widget}
                   /\ persistent_state'[keyboard_focus_widget].characters =
                         IF keyboard_focus_widget \in DOMAIN persistent_state
                         THEN persistent_state[keyboard_focus_widget].characters
                                  \o <<c>>
                         ELSE <<c>>
                   /\ \A k \in (DOMAIN persistent_state) \ {keyboard_focus_widget} :
                         persistent_state'[k] = persistent_state[k]]_vars

\* "x" then "y" were typed into "b", whose entry the first of them created,
\* beside an entry of "a" that holds what was typed into it earlier
C2_Witness ==
    /\ keyboard_focus_widget = "b"
    /\ Has(persistent_state, "b")
    /\ persistent_state["b"].characters = <<"x", "y">>
    /\ Has(persistent_state, "a")
    /\ persistent_state["a"].characters = <<"y">>
    /\ ~persistent_state["a"].is_open

(***************************************************************************)
(* Properties of the persistent-state store (SpecStore).                   *)
(***************************************************************************)
\* C7: init_state(path, open) is first-call-wins: when the store has an entry
\* for path, however it was created, the call changes nothing (is_open keeps
\* its value); when it has none, an entry is created with is_open = open and
\* every other field at its default, and no other entry changes.
C7_InitStateFirstCallWins ==
    [][\A i \in StoreInputs.inits :
          init_state(i[1], i[2]) =>
              IF i[1] \in DOMAIN persistent_state
              THEN persistent_state' = persistent_state
              ELSE /\ DOMAIN persistent_state' = (DOMAIN persistent_state) \cup {i[1]}
                   /\ persistent_state'[i[1]] =
                         [is_open |-> i[2],
                          resize |-> [x |-> 0, y |-> 0],
                          moved |-> [x |-> 0, y |-> 0],
                          scroll |-> [x |-> 0, y |-> 0],
                          base_time_millis |-> 0,
                          characters |-> <<>>,
                          text |-> None]
                   /\ \A k \in DOMAIN persistent_state :
                         persistent_state'[k] = persistent_state[k]]_vars

\* "a" was created closed by init_state and then dragged; "b" was created by
\* push_character (open) and holds what was typed
C7_Witness ==
    /\ Has(persistent_state, "a")
    /\ ~persistent_state["a"].is_open
    /\ persistent_state["a"].moved = PointA
    /\ Has(persistent_state, "b")
    /\ persistent_state["b"].is_open
    /\ persistent_state["b"].characters = <<"x", "x">>

\* C8: state(path) never changes the set of stored paths, and for a path with
\* no entry it returns the default empty state: is_open true, zero resize,
\* moved and scroll, base_time_millis 0, no characters, no text.
C8_ReadOfMissingPathIsDefault ==
    [][\A id \in StoreInputs.reads :
          state(id) =>
              /\ DOMAIN persistent_state' = DOMAIN persistent_state
              /\ id \notin DOMAIN persistent_state =>
                     returned'.state =
                         [is_open |-> TRUE,
                          resize |-> [x |-> 0, y |-> 0],
                          moved |-> [x |-> 0, y |-> 0],
                          scroll |-> [x |-> 0, y |-> 0],
                          base_time_millis |-> 0,
                          characters |-> <<>>,
                          text |-> None]]_vars

\* state("a") has just returned while the store holds "b" only
C8_Witness ==
    /\ returned.id = "a"
    /\ ~Has(persistent_state, "a")
    /\ Has(persistent_state, "b")
    /\ ~persistent_state["b"].is_open

\* C9: an entry of the store stays present through every operation; only
\* clear_state(path) for that path removes it, and clear_state(path) removes
\* or changes no entry of another path.
C9_EntryRemovedOnlyByItsClear ==
    [][/\ \A id \in Ids :
             (id \in DOMAIN persistent_state /\ id \notin DOMAIN persistent_state')
                 => clear_state(id)
       /\ \A id \in StoreInputs.clears :
             clear_state(id) =>
                 \A k \in (DOMAIN persistent_state) \ {id} :
                     /\ k \in DOMAIN persistent_state'
                     /\ persistent_state'[k] = persistent_state[k]]_vars

\* the entry of "a" was scrolled before a frame boundary and has since lived
\* through a mouse move, a new frame and a resize of the display, while "b"
\* has no entry
C9_Witness ==
    /\ delta_age = "aged"
    /\ Has(persistent_state, "a")
    /\ persistent_state["a"].scroll = PointC
    /\ ~Has(persistent_state, "b")
    /\ keyboard_focus_widget = "b"
    /\ last_mouse_pos = PointA
    /\ time_millis = 16
    /\ display_size = DisplayAlt

\* a frame boundary, a new frame or an input event other than a character
FrameOrInputStep ==
    \/ \E taken \in StoreInputs.takens : next_frame(taken)
    \/ \E elapsed \in StoreInputs.times : create_frame(elapsed)
    \/ \E position \in StoreInputs.positions : set_mouse_pos(position)
    \/ \E pressed \in BOOLEAN, index \in StoreInputs.buttons :
           set_mouse_pressed(pressed, index)
    \/ \E extent \in StoreInputs.sizes : set_display_size(extent)

\* C10: a value written to the moved, resize or scroll field of a path is what
\* state(path) reads back in a later frame: the write puts it in the entry,
\* next_frame, create_frame, set_mouse_pos, set_mouse_pressed and
\* set_display_size leave every entry as it is, and state(path) returns the
\* entry's fields.
C10_DeltasSurviveFrames ==
    [][/\ \A w \in StoreInputs.writes :
             (w[2] \in DeltaFields /\ state_mut(w[1], w[2], w[3]))
                 => /\ w[1] \in DOMAIN persistent_state'
                    /\ persistent_state'[w[1]][w[2]] = w[3]
       /\ persistent_state' /= persistent_state => ~FrameOrInputStep
       /\ \A id \in StoreInputs.reads :
             (state(id) /\ id \in DOMAIN persistent_state)
                 => /\ returned'.state.moved = persistent_state[id].moved
                    /\ returned'.state.resize = persistent_state[id].resize
                    /\ returned'.state.scroll = persistent_state[id].scroll]_vars

\* state("a") has just returned the three deltas, the last of them written
\* before a frame boundary, after a mouse move and a new frame
C10_Witness ==
    /\ delta_age = "aged"
    /\ returned.id = "a"
    /\ returned.state.moved = PointA
    /\ returned.state.resize = PointB
    /\ returned.state.scroll = PointC
    /\ last_mouse_pos = PointA
    /\ time_millis = 16
    /\ mouse_clicked = AllFalse


(***************************************************************************)
(* Properties of the mouse-claim query (Spec).                             *)
(***************************************************************************)
\* an input event between frames: mouse move, press, release or character
InputEventStep ==
    \/ \E position \in {Origin, PointA, PointB, PointC} : set_mouse_pos(position)
    \/ \E pressed \in BOOLEAN, index \in ButtonInputs : set_mouse_pressed(pressed, index)
    \/ \E c \in {"x", "y"} : push_character(c)

\* C11: wants_mouse() is false before the first frame ends; after a next_frame
\* it is true exactly when that next_frame recorded some widget id; only a
\* next_frame changes its result, and a mouse move, press, release or character
\* never does.
C11_WantsMouseFollowsLastFrame ==
    /\ ~wants_mouse
    /\ [][/\ \A taken \in OptId :
                 next_frame(taken) => (wants_mouse' <=> taken /= None)
          /\ InputEventStep => (wants_mouse' <=> wants_mouse)
          /\ (wants_mouse' <=> wants_mouse) \/ \E taken \in OptId : next_frame(taken)
         ]_vars

\* a frame ended with the mouse claimed, and since then the mouse moved and a
\* button went down: wants_mouse() still answers true
C11_Witness ==
    /\ wants_mouse
    /\ last_mouse_pos = Origin
    /\ mouse_pos /= Origin
    /\ mouse_pressed[0]

(***************************************************************************)
(* Properties of size resolution (SpecSize).                               *)
(***************************************************************************)
\* C20: the resolved width is the raw width when width_from is Normal and the
\* raw width plus the parent's width less the parent's horizontal border when
\* Parent; the resolved height is the raw height when Normal, the raw height
\* plus the parent's height less the parent's vertical border when Parent, and
\* the raw height plus the font's line height (0 without a font) plus the
\* widget's own vertical border when FontLine; raw (100,20), FontLine, border
\* (2,2,2,2) and line height 16 give height 40.
C20_SizeResolution ==
    size_out /= <<>> =>
        LET c == size_in[1]
            r == size_out[1]
            inner_w == c.parent_size.x - (c.parent_border.left + c.parent_border.right)
            inner_h == c.parent_size.y - (c.parent_border.top + c.parent_border.bot)
            line == IF c.font = Nothing THEN 0 ELSE c.font[1].line_height
        IN  /\ c.width_from = "Normal" => r.x = c.raw_size.x
            /\ c.width_from = "Parent" => r.x = c.raw_size.x + inner_w
            /\ c.height_from = "Normal" => r.y = c.raw_size.y
            /\ c.height_from = "Parent" => r.y = c.raw_size.y + inner_h
            /\ c.height_from = "FontLine" =>
                   r.y = c.raw_size.y + line + c.border.top + c.border.bot
            /\ (/\ c.raw_size = [x |-> 100, y |-> 20]
                /\ c.height_from = "FontLine"
                /\ c.border = [left |-> 2, right |-> 2, top |-> 2, bot |-> 2]
                /\ c.font = Some([line_height |-> 16])) => r.y = 40

\* the example of the claim has been computed: height 40, and a width taken
\* from a bordered parent
C20_Witness ==
    /\ size_out /= <<>>
    /\ size_in[1].raw_size = [x |-> 100, y |-> 20]
    /\ size_in[1].height_from = "FontLine"
    /\ size_in[1].border = [left |-> 2, right |-> 2, top |-> 2, bot |-> 2]
    /\ size_in[1].font = Some([line_height |-> 16])
    /\ size_in[1].width_from = "Parent"
    /\ size_in[1].parent_border.left = 1
    /\ size_out[1] = [x |-> 147, y |-> 40]

(***************************************************************************)
(* Properties of the builder protocol (SpecPlace, SpecGate, SpecFlow).     *)
(***************************************************************************)
\* C12 as stated: for every widget of the frame and every sequence of builder
\* calls on it, recalculate_pos_size runs at most once.
C12_RecalculatedAtMostOnce ==
    \A i \in 1 .. Len(history) : history[i].recalcs <= 1

\* C12, amended: each children() or finish() call recomputes the geometry at
\* most once, so a widget is recomputed at most once more than children() was
\* called on it; it is recomputed at most once in the frame when no dirtying
\* setter (id, font, pos, align, border, size, width_from, height_from) was
\* called on it after a children() call.
C12_RecalculatedOncePerFinalization ==
    \A i \in 1 .. Len(history) :
        /\ history[i].recalcs <= history[i].children_calls + 1
        /\ ~history[i].late => history[i].recalcs <= 1

\* a widget was configured with a dirtying setter, then built its children,
\* then finished: one recomputation
C12_Witness ==
    \E i \in 1 .. Len(history) :
        /\ history[i].final /= <<>>
        /\ history[i].children_calls = 1
        /\ history[i].closures = 1
        /\ "pos" \in history[i].called
        /\ ~history[i].late
        /\ history[i].recalcs = 1

(***************************************************************************)
(* Properties of configuration order (SpecOrder).                          *)
(***************************************************************************)
\* C13 as stated: a set of distinct configuration calls with fixed arguments,
\* applied to a fresh builder in any two orders and then finalized, gives the
\* same resolved pos and size.
C13_OrderDoesNotMatter ==
    (order_set /= {} /\ order_a.done /\ order_b.done) =>
        /\ order_a.self.w.pos = order_b.self.w.pos
        /\ order_a.self.w.size = order_b.self.w.size

(***************************************************************************)
(* Properties of the setters that leave geometry alone (SpecConfig).       *)
(***************************************************************************)
\* the calls of ConfigInputs that leave geometry alone
QuietCalls == {c[2] : c \in {d \in ConfigInputs.calls : d[2][1] \in NonGeometryCalls}}

\* the geometry fields of the innermost builder's widget and its dirty flag
TopGeometry ==
    <<TopWidget.raw_pos, TopWidget.raw_size, TopWidget.pos, TopWidget.size,
      TopWidget.align, TopWidget.border, Top.recalc_pos_size>>

\* the resolved pos and size a finish() of the innermost builder would leave
TopFinalGeometry ==
    LET done == Finished(TopSelf, TopParent, FrameState(TopWidget))
    IN  <<done.w.pos, done.w.size>>

C15_InvisibleIsHiddenAndChildless ==
    /\ \A k \in 1 .. Len(builders) : builders[k].in_children => builders[k].visible
    /\ \A i \in 1 .. Len(history) :
           (history[i].final /= <<>> /\ ~history[i].final[1].b.visible) =>
               /\ widgets[i].hidden
               /\ history[i].final[1].state = WidgetStateHidden
               /\ history[i].arbitrations = 0

\* C16 as stated: when the widget's persistent is_open is false, children()
\* marks the widget hidden and returns without invoking the closure (no widget
\* is added, the parent index is untouched), finish() marks it hidden and
\* returns the hidden result, and the store is left unchanged.
C16_ClosedIsHiddenAndChildless ==
    [][/\ (children /\ ~FrameState(TopWidget).is_open) =>
              /\ widgets'[Top.widget + 1].hidden
              /\ ~builders'[Len(builders)].in_children
              /\ Len(widgets') = Len(widgets)
              /\ parent_index' = parent_index
              /\ persistent_state' = persistent_state
       /\ (finish /\ ~FrameState(TopWidget).is_open) =>
              /\ widgets'[Top.widget + 1].hidden
              /\ result'.state = WidgetStateHidden
              /\ persistent_state' = persistent_state
      ]_vars

(***************************************************************************)
(* Properties of the arbitration step of finish() (SpecMouse).             *)
(***************************************************************************)
\* the widgets finalized visible and open that were disabled or did not want
\* the mouse
Unresponsive ==
    {i \in 1 .. Len(history) :
        /\ history[i].final /= <<>>
        /\ history[i].final[1].b.visible
        /\ history[i].final[1].open
        /\ \/ ~history[i].final[1].b.enabled
           \/ ~history[i].final[1].w_before.wants_mouse}

\* C17: a visible, open widget that is disabled or does not want the mouse is
\* finalized without mouse arbitration, its animation state is Disabled (and
\* Active exactly if active was set), and the result reports no hover, press
\* or click and a zero drag, whatever the mouse position and button state.
C17_UnresponsiveWidgetsReportNothing ==
    \A i \in Unresponsive :
        /\ history[i].arbitrations = 0
        /\ frame_mouse_taken /= widgets[i].id
        /\ widgets[i].anim_state = IF history[i].final[1].b.active
                                   THEN {"Disabled", "Active"}
                                   ELSE {"Disabled"}
        /\ history[i].final[1].state =
               [visible |-> TRUE, hovered |-> FALSE, pressed |-> FALSE,
                clicked |-> FALSE, dragged |-> Origin]

\* a disabled, active button whose theme wants the mouse is finalized while
\* the mouse is over it, having moved there in this frame with button 0 held
C17_Witness ==
    \E i \in Unresponsive :
        /\ mouse_pos = PointA
        /\ mouse_pos /= last_mouse_pos
        /\ mouse_pressed[0]
        /\ ~history[i].final[1].b.enabled
        /\ history[i].final[1].b.active
        /\ widgets[i].wants_mouse

(***************************************************************************)
(* Properties of the cursor advance of finish() (SpecFlow, SpecPlace).     *)
(***************************************************************************)
\* the widgets finalized visible and open (those whose finish() reaches the
\* cursor advance), and among them the ones that flow
Placed ==
    {i \in 1 .. Len(history) :
        /\ history[i].final /= <<>>
        /\ history[i].final[1].b.visible
        /\ history[i].final[1].open}
AutoFlow == {i \in Placed : ~history[i].final[1].b.manual_pos}

\* the parent `before` with its cursor moved by (dx, dy)
CursorMoved(before, dx, dy) ==
    [before EXCEPT !.cursor = [x |-> before.cursor.x + dx, y |-> before.cursor.y + dy]]

\* C18 as stated: finish() of an auto-flow child advances the parent's cursor by
\* the child's resolved size plus the parent's layout_spacing along the flow
\* axis (x if Horizontal, y if Vertical, nothing if Free).
C18_CursorAdvancesBySizePlusSpacing ==
    \A i \in AutoFlow :
        LET before == history[i].final[1].parent_before
            after == history[i].final[1].parent_after
        IN  after = CASE before.layout = "Horizontal" ->
                             CursorMoved(before, widgets[i].size.x + before.layout_spacing.x, 0)
                      [] before.layout = "Vertical" ->
                             CursorMoved(before, 0, widgets[i].size.y + before.layout_spacing.y)
                      [] before.layout = "Free" -> before

\* the sign the parent's child_align gives the child's width and height
SignX(child_align) ==
    IF child_align \in {"Left", "BotLeft", "TopLeft"} THEN 1
    ELSE IF child_align \in {"Right", "BotRight", "TopRight"} THEN 0 - 1
    ELSE 0
SignY(child_align) ==
    IF child_align \in {"Top", "TopLeft", "TopRight"} THEN 1
    ELSE IF child_align \in {"Bot", "BotLeft", "BotRight"} THEN 0 - 1
    ELSE 0

\* the parent `before` after a flowing child of the given size: the cursor moves
\* along the flow axis by the layout_spacing plus the size taken with the sign
\* of the parent's child_align
SignedAdvance(before, extent) ==
    CASE before.layout = "Horizontal" ->
             CursorMoved(before,
                 SignX(before.child_align) * extent.x + before.layout_spacing.x, 0)
      [] before.layout = "Vertical" ->
             CursorMoved(before, 0,
                 SignY(before.child_align) * extent.y + before.layout_spacing.y)
      [] before.layout = "Free" -> before

\* C18 (amended): the advance is the layout_spacing plus the child's resolved
\* size taken with the sign the parent's child_align gives that axis: plus for
\* the alignments at the left (top), minus for those at the right (bottom),
\* zero for the others.  With the default TopLeft it is size plus spacing.
C18_CursorAdvancesBySignedSizePlusSpacing ==
    \A i \in AutoFlow :
        history[i].final[1].parent_after =
            SignedAdvance(history[i].final[1].parent_before, widgets[i].size)

\* a Vertical TopLeft column with layout_spacing.y = 5 has finished two flowing
\* items of height 20 and 30: its cursor.y was 25 after the first and is 60
C18_Witness ==
    /\ Len(widgets) = 4
    /\ {3, 4} \subseteq AutoFlow
    /\ widgets[2].layout = "Vertical" /\ widgets[2].child_align = "TopLeft"
    /\ widgets[2].layout_spacing.y = 5
    /\ widgets[3].size.y = 20 /\ widgets[4].size.y = 30
    /\ history[3].final[1].parent_before.cursor.y = 0
    /\ history[3].final[1].parent_after.cursor.y = 25
    /\ history[4].final[1].parent_after.cursor.y = 60
    /\ widgets[2].cursor = [x |-> 0, y |-> 60]

\* the widgets finalized after a call that places them (pos, screen_pos,
\* align) or started from a theme that does (a pos, or an align other than the
\* parent's child_align), and those finalized after an id override
PlacedByHand ==
    {i \in Placed : \/ history[i].called \cap {"pos", "screen_pos", "align"} /= {}
                    \/ history[i].theme_manual}
Identified == {i \in Placed : "id" \in history[i].called}

\* C19 as stated: finish() leaves the parent's cursor unchanged for every
\* widget that was explicitly positioned, aligned or identified.
C19_PlacedOrIdentifiedLeavesCursor ==
    \A i \in PlacedByHand \cup Identified :
        history[i].final[1].parent_after = history[i].final[1].parent_before

\* C19 (amended): finish() leaves the parent unchanged for every widget that
\* was explicitly positioned or aligned; an id override alone does not take
\* the widget out of the flow, and the cursor advances for it as for any
\* flowing child.
C19_PlacedLeavesCursorIdentifiedFlows ==
    /\ \A i \in PlacedByHand :
           /\ history[i].final[1].b.manual_pos
           /\ history[i].final[1].parent_after = history[i].final[1].parent_before
    /\ \A i \in Identified \ PlacedByHand :
           /\ ~history[i].final[1].b.manual_pos
           /\ history[i].final[1].parent_after =
                  SignedAdvance(history[i].final[1].parent_before, widgets[i].size)

\* in a Vertical column a note placed by align() has been finished and left the
\* cursor where it was, and the item after it has flowed from there
C19_Witness ==
    /\ Len(widgets) = 4
    /\ 3 \in PlacedByHand /\ "align" \in history[3].called
    /\ widgets[2].layout = "Vertical"
    /\ history[3].final[1].parent_after.cursor = Origin
    /\ 4 \in AutoFlow
    /\ history[4].final[1].parent_before.cursor = Origin
    /\ widgets[2].cursor.y /= 0

(***************************************************************************)
(* Properties of fn pos (SpecPos).                                         *)
(***************************************************************************)
\* twice the rounding of h / 2: a position in half units, rounded to an integer
Rounded(h) == 2 * RoundHalf(h)

\* the anchor of the parent's bordered interior an alignment names, in half
\* units: the interior's left or right edge or middle, its top or bottom edge
\* or middle
InteriorAnchor(c) ==
    LET left == c.parent_pos.x + 2 * c.parent_border.left
        right == c.parent_pos.x + 2 * (c.parent_size.x - c.parent_border.right)
        top == c.parent_pos.y + 2 * c.parent_border.top
        bot == c.parent_pos.y + 2 * (c.parent_size.y - c.parent_border.bot)
    IN  [x |-> IF c.align \in {"Left", "BotLeft", "TopLeft"} THEN left
               ELSE IF c.align \in {"Right", "BotRight", "TopRight"} THEN right
               ELSE (left + right) \div 2,
         y |-> IF c.align \in {"Top", "TopLeft", "TopRight"} THEN top
               ELSE IF c.align \in {"Bot", "BotLeft", "BotRight"} THEN bot
               ELSE (top + bot) \div 2]

\* the widget's own offset from that anchor, in half units: nothing, half its
\* size or all of it
SelfOffset(c) ==
    [x |-> IF c.align \in {"Left", "BotLeft", "TopLeft"} THEN 0
           ELSE IF c.align \in {"Right", "BotRight", "TopRight"} THEN 2 * c.self_size.x
           ELSE c.self_size.x,
     y |-> IF c.align \in {"Top", "TopLeft", "TopRight"} THEN 0
           ELSE IF c.align \in {"Bot", "BotLeft", "BotRight"} THEN 2 * c.self_size.y
           ELSE c.self_size.y]

\* C21 as stated: with raw pos (0,0) a zero-size widget resolves to the anchor
\* of the parent's bordered interior rounded to an integer, a widget with a
\* size to the anchor less its own offset, rounded; a root of size (800,600)
\* places a Center widget of size (100,50) at (350,275).
C21_AnchorResolvedAndRounded ==
    (pos_out /= <<>> /\ pos_in[1].raw_pos = Origin) =>
        LET c == pos_in[1]
            anchor == InteriorAnchor(c)
            own == SelfOffset(c)
        IN  /\ pos_out[1] = [x |-> Rounded(anchor.x - own.x),
                             y |-> Rounded(anchor.y - own.y)]
            /\ (/\ c.parent_pos = Origin /\ c.parent_size = [x |-> 800, y |-> 600]
                /\ c.parent_border = ZeroBorder /\ c.align = "Center"
                /\ c.self_size = [x |-> 100, y |-> 50]) =>
                   pos_out[1] = [x |-> 700, y |-> 550]

(***************************************************************************)
(* Properties of widget identity and of builder construction (SpecFlow,    *)
(* SpecGate, SpecConfig).                                                  *)
(***************************************************************************)
\* C22 as stated: no two widgets of the frame arena have the same id.
C22_IdsUniqueInFrame ==
    \A i, j \in 1 .. Len(widgets) : widgets[i].id = widgets[j].id => i = j

\* the names the application may pass to Frame::start in SpecGate, and the
\* theme id requested for a widget of that name under the current parent
GateNames == {s[3] : s \in GateInputs.starts}
RequestedId(name) ==
    IF widgets[parent_index + 1].theme_id = "" THEN name
    ELSE widgets[parent_index + 1].theme_id \o "." \o name

\* C23: WidgetBuilder::new builds the widget from the requested theme if the
\* theme set has it, from the base theme only if it has not; if it has neither
\* the call panics with the arena, the parent index, the chain of builders and
\* the whole Context (so the store) as they were.
C23_ThemeFallbackOrPanic ==
    [][\A name \in GateNames :
           start(name) =>
               LET requested == theme(RequestedId(name))
                   base == theme(name)
                   made == WidgetNew(widgets[parent_index + 1],
                                     IF requested /= Nothing THEN requested[1]
                                     ELSE base[1])
               IN  IF requested = Nothing /\ base = Nothing
                   THEN /\ panicked'
                        /\ widgets' = widgets
                        /\ builders' = builders
                        /\ parent_index' = parent_index
                        /\ persistent_state' = persistent_state
                        /\ UNCHANGED context_all
                   ELSE /\ ~panicked'
                        /\ widgets' = Append(widgets, made)
                        /\ persistent_state' = persistent_state
      ]_vars

\* the application has panicked starting a widget without a theme, after a
\* label under the column was built from the theme column.label and an item
\* under it from the base theme item
C23_Witness ==
    /\ panicked
    /\ Len(widgets) = 4
    /\ builders = <<>>
    /\ widgets[3].theme_id = "column.label" /\ widgets[3].text = Some("nested")
    /\ widgets[4].theme_id = "item" /\ widgets[4].id = "column/item"

(***************************************************************************)
(* Properties of font() (SpecFont).                                        *)
(***************************************************************************)
\* font(name) is called on the innermost builder with a name the theme set
\* cannot resolve
FontMissing == configure(<<"font", "missing">>) /\ find_font("missing") = Nothing

\* C24 as stated: such a call is not fatal, returns the builder, leaves the
\* widget without a font, and changes no other attribute of any widget.
C24_MissingFontLeavesNoFont ==
    [][FontMissing =>
           /\ ~panicked'
           /\ Len(builders') = Len(builders)
           /\ widgets'[Top.widget + 1].font = Nothing
           /\ widgets' = [widgets EXCEPT ![Top.widget + 1].font = Nothing]
      ]_vars

\* C24 (amended): such a call is not fatal, returns the builder unchanged and
\* changes nothing: the widget keeps the font it had, which is the font of its
\* theme or of an earlier font() call, and is none only if it had none.
C24_MissingFontChangesNothing ==
    [][FontMissing =>
           /\ ~panicked'
           /\ builders' = builders
           /\ widgets' = widgets
           /\ UNCHANGED context_all
      ]_vars

\* a caption keeps the font of its theme after its one call, font("missing"),
\* and has been finished with the height of that font's line
C24_Witness ==
    /\ Len(widgets) = 2
    /\ widgets[2].theme_id = "caption"
    /\ history[2].calls = 1 /\ history[2].called = {"font"}
    /\ widgets[2].font = Some([line_height |-> 12])
    /\ history[2].final /= <<>>
    /\ widgets[2].size = [x |-> 80, y |-> 12]
    /\ ~panicked

(***************************************************************************)
(* Properties of the borrows of the shared Context (SpecBorrow).           *)
(***************************************************************************)
\* C25: no call of a Context method, through either handle, finds the cell
\* already borrowed; at most one mutable borrow is outstanding, and only inside
\* a method; every method has released its borrow when it returns, early
\* returns included.
C25_BorrowsAreReleased ==
    /\ ~cell.failed
    /\ cell.flag \in {0 - 1, 0, 1}
    /\ in_call = <<>> => cell.flag = 0
    /\ in_call /= <<>> =>
           cell.flag = IF in_call[1].op = "wants_mouse" THEN 1 ELSE 0 - 1

\* push_character has returned early (no widget had the focus) while a Frame
\* holds the second handle, after a release of button 0 that was a click, and
\* the cell is unused
C25_Witness ==
    /\ cell.handles = 2
    /\ cell.last = <<[op |-> "push_character", early |-> TRUE]>>
    /\ mouse_clicked[0]
    /\ cell.flag = 0
    /\ in_call = <<>>

(***************************************************************************)
(* Properties of input_field (SpecField).                                  *)
(***************************************************************************)
\* C26 as stated: input_field returns the new text exactly when the text after
\* the pending characters were applied (a character appends, backspace removes
\* the last one) differs from the text before, none otherwise; and the queue
\* of pending characters is empty afterwards.
C26_ReturnsTextIffChanged ==
    field_out /= <<>> =>
        LET before == IF field_in[1].text = Nothing THEN <<>> ELSE field_in[1].text[1]
            after == field_out[1].entry.text[1]
        IN  /\ field_out[1].entry.characters = <<>>
            /\ after = Drained(before, field_in[1].characters)
            /\ field_out[1].returned = IF after /= before THEN Some(after) ELSE Nothing

(***************************************************************************)
(* Properties of the parent index (SpecNest).                              *)
(***************************************************************************)
\* the builders whose children() closure is running
InClosure == {k \in 1 .. Len(builders) : builders[k].in_children}

\* C27: while the closure of children() runs, the parent index is the arena
\* index of the widget whose closure it is, at every depth; when a closure
\* returns it is again the index of the enclosing closure's widget, and once
\* the outermost children() has returned it is the root's, as before the call.
C27_ParentIndexFollowsNesting ==
    /\ \A k \in 1 .. Len(builders) - 1 : k \in InClosure
    /\ parent_index = IF InClosure = {} THEN 0
                      ELSE builders[CHOOSE k \in InClosure :
                                        \A other \in InClosure : other <= k].widget

\* a column, an item in it and a note in the item have each run a closure and
\* been finished, and the parent index is the root's again
C27_Witness ==
    /\ builders = <<>>
    /\ Len(widgets) >= 4
    /\ \A i \in 2 .. 4 : history[i].closures = 1 /\ history[i].final /= <<>>
    /\ widgets[4].id = "column/item/note"
    /\ parent_index = 0

C29_OutsideOnlyWhileHeld ==
    \A i \in Buttons : mouse_pressed_outside[i] => mouse_pressed[i]

\* a button pressed while no widget had the mouse is still held, flagged as
\* pressed outside, after a frame boundary; another button was released
C29_Witness ==
    /\ \E i \in Buttons : mouse_pressed_outside[i] /\ mouse_pressed[i]
    /\ \E i \in Buttons : ~mouse_pressed_outside[i] /\ ~mouse_pressed[i]
    /\ mouse_taken_last_frame /= None
    /\ last_mouse_pos = PointA

\* C30: a click is set by the release of a held button, no operation other
\* than next_frame takes it back, and next_frame resets the clicks of all
\* buttons, copies mouse_pos to last_mouse_pos and leaves mouse_pressed,
\* mouse_pressed_outside, the keyboard focus and the persistent store as they
\* were.
C30_ClickLastsOneFrame ==
    [][/\ \A i \in Buttons :
             /\ (set_mouse_pressed(FALSE, i) /\ mouse_pressed[i]) => mouse_clicked'[i]
             /\ (mouse_clicked[i] /\ ~mouse_clicked'[i])
                    => \E taken \in OptId : next_frame(taken)
             /\ (mouse_clicked[i] /\ InputEventStep) => mouse_clicked'[i]
       /\ \A taken \in OptId :
             next_frame(taken)
                 => /\ \A i \in Buttons : ~mouse_clicked'[i]
                    /\ mouse_pressed' = mouse_pressed
                    /\ mouse_pressed_outside' = mouse_pressed_outside
                    /\ keyboard_focus_widget' = keyboard_focus_widget
                    /\ persistent_state' = persistent_state
                    /\ last_mouse_pos' = mouse_pos]_vars

\* after a click, a frame boundary has left no click, while a button is still
\* held and flagged as pressed outside; the mouse had moved before the boundary
C30_Witness ==
    /\ mouse_clicked = AllFalse
    /\ click_since_focus
    /\ \E i \in Buttons : mouse_pressed[i] /\ mouse_pressed_outside[i]
    /\ last_mouse_pos = mouse_pos
    /\ mouse_pos /= Origin

(***************************************************************************)
(* Properties of a button index out of range (SpecBorrow).                 *)
(***************************************************************************)
\* a call of set_mouse_pressed returns on its early-return path
ReturnsEarlyFromPress ==
    /\ in_call /= <<>>
    /\ in_call[1].op = "set_mouse_pressed"
    /\ in_call' = <<>>
    /\ cell'.last = <<[op |-> "set_mouse_pressed", early |-> TRUE]>>

\* C31: a call of set_mouse_pressed with a button index outside 0..2 leaves
\* mouse_pressed, mouse_clicked, mouse_pressed_outside and the keyboard-focus
\* owner as they were, returns normally, and neither panics nor fails a borrow.
C31_OutOfRangeButtonIsNoOp ==
    [][ReturnsEarlyFromPress
          => /\ mouse_pressed' = mouse_pressed
             /\ mouse_clicked' = mouse_clicked
             /\ mouse_pressed_outside' = mouse_pressed_outside
             /\ keyboard_focus_widget' = keyboard_focus_widget
             /\ returned' = Unit
             /\ ~panicked'
             /\ ~cell'.failed]_vars

\* set_mouse_pressed has just returned early while button 0 is held, flagged as
\* pressed outside and clicked, and "a" has the keyboard focus
C31_Witness ==
    /\ cell.last = <<[op |-> "set_mouse_pressed", early |-> TRUE]>>
    /\ in_call = <<>>
    /\ mouse_pressed[0] /\ mouse_clicked[0] /\ mouse_pressed_outside[0]
    /\ keyboard_focus_widget = "a"

=============================================================================
